---- MODULE Spec2Model ----
(***************************************************************************)
(* Model of the excel bulk-upload editor: the zustand store                *)
(* (excel_upload_store), the AutocompleteCell component with its debounce  *)
(* timer and abortable suggestion request, the school suggestion client    *)
(* and the orchestration handlers of ExcelUploader / ExcelDataTable.       *)
(*                                                                         *)
(* Strings are sequences of one-character strings, so that length, trim,   *)
(* lower-casing and substring search are computed as the code computes     *)
(* them.                                                                    *)
(***************************************************************************)
EXTENDS Integers, Sequences, FiniteSets, TLC

(***************************************************************************)
(* Bounds of the model.                                                    *)
(***************************************************************************)
\* cap on the number of suggestion requests issued in one behaviour
MaxRequests == 2

(***************************************************************************)
(* Program constants.                                                      *)
(***************************************************************************)
\* AutocompleteCell default prop minSearchLength
minSearchLength == 2
\* fetchSchools: slice(0, 10)
MaxResults == 10
\* fetchSchools: query.trim().length < 2
MinQueryLength == 2
\* initialState.pageSize
InitialPageSize == 10
\* ExcelRowSchema.school: min(2) / max(200)
SchoolMinLen == 2
SchoolMaxLen == 200

\* AUTOCOMPLETE_COLUMNS
AUTOCOMPLETE_COLUMNS == {"school"}

\* the null of activeCellKey / of a ref that holds nothing
None == <<"null">>

(***************************************************************************)
(* String helpers (JavaScript String methods).                             *)
(***************************************************************************)
UpperToLower ==
  [A |-> "a", B |-> "b", C |-> "c", D |-> "d", E |-> "e", F |-> "f",
   G |-> "g", H |-> "h", I |-> "i", J |-> "j", K |-> "k", L |-> "l",
   M |-> "m", N |-> "n", O |-> "o", P |-> "p", Q |-> "q", R |-> "r",
   S |-> "s", T |-> "t", U |-> "u", V |-> "v", W |-> "w", X |-> "x",
   Y |-> "y", Z |-> "z"]

\* String.prototype.toLowerCase
ToLowerCase(s) ==
  [i \in 1..Len(s) |-> IF s[i] \in DOMAIN UpperToLower THEN UpperToLower[s[i]] ELSE s[i]]

RECURSIVE TrimStart(_)
TrimStart(s) ==
  IF s # <<>> /\ Head(s) = " " THEN TrimStart(Tail(s)) ELSE s

RECURSIVE TrimEnd(_)
TrimEnd(s) ==
  IF s # <<>> /\ s[Len(s)] = " " THEN TrimEnd(SubSeq(s, 1, Len(s) - 1)) ELSE s

\* String.prototype.trim
Trim(s) == TrimEnd(TrimStart(s))

\* String.prototype.includes
Includes(s, term) ==
  \E i \in 0..(Len(s) - Len(term)) : SubSeq(s, i + 1, i + Len(term)) = term

\* the members of a set of positions in ascending order
RECURSIVE Ascending(_)
Ascending(S) ==
  IF S = {} THEN <<>>
  ELSE LET m == CHOOSE x \in S : \A y \in S : x <= y
       IN  <<m>> \o Ascending(S \ {m})

\* Array.prototype.slice(0, n)
Slice0(s, n) == SubSeq(s, 1, IF Len(s) < n THEN Len(s) ELSE n)

Min(a, b) == IF a < b THEN a ELSE b
Max(a, b) == IF a > b THEN a ELSE b

(***************************************************************************)
(* Remote suggestion client (school_api).                                  *)
(***************************************************************************)
MOCK_SCHOOLS ==
  <<
    [id |-> "1", type |-> "public",
     name |-> <<"S", "p", "r", "i", "n", "g", "f", "i", "e", "l", "d", " ", "E", "l", "e", "m", "e", "n", "t", "a", "r", "y", " ", "S", "c", "h", "o", "o", "l">>,
     location |-> <<"S", "p", "r", "i", "n", "g", "f", "i", "e", "l", "d">>],
    [id |-> "2", type |-> "public",
     name |-> <<"S", "p", "r", "i", "n", "g", "f", "i", "e", "l", "d", " ", "H", "i", "g", "h", " ", "S", "c", "h", "o", "o", "l">>,
     location |-> <<"S", "p", "r", "i", "n", "g", "f", "i", "e", "l", "d">>],
    [id |-> "3", type |-> "private",
     name |-> <<"R", "i", "v", "e", "r", "s", "i", "d", "e", " ", "A", "c", "a", "d", "e", "m", "y">>,
     location |-> <<"R", "i", "v", "e", "r", "s", "i", "d", "e">>],
    [id |-> "4", type |-> "public",
     name |-> <<"R", "i", "v", "e", "r", "s", "i", "d", "e", " ", "M", "i", "d", "d", "l", "e", " ", "S", "c", "h", "o", "o", "l">>,
     location |-> <<"R", "i", "v", "e", "r", "s", "i", "d", "e">>],
    [id |-> "5", type |-> "public",
     name |-> <<"O", "a", "k", " ", "G", "r", "o", "v", "e", " ", "E", "l", "e", "m", "e", "n", "t", "a", "r", "y">>,
     location |-> <<"O", "a", "k", " ", "G", "r", "o", "v", "e">>],
    [id |-> "6", type |-> "public",
     name |-> <<"O", "a", "k", " ", "G", "r", "o", "v", "e", " ", "H", "i", "g", "h", " ", "S", "c", "h", "o", "o", "l">>,
     location |-> <<"O", "a", "k", " ", "G", "r", "o", "v", "e">>],
    [id |-> "7", type |-> "private",
     name |-> <<"W", "e", "s", "t", "s", "i", "d", "e", " ", "P", "r", "e", "p", "a", "r", "a", "t", "o", "r", "y", " ", "A", "c", "a", "d", "e", "m", "y">>,
     location |-> <<"W", "e", "s", "t", "s", "i", "d", "e">>],
    [id |-> "8", type |-> "charter",
     name |-> <<"W", "e", "s", "t", "s", "i", "d", "e", " ", "C", "h", "a", "r", "t", "e", "r", " ", "S", "c", "h", "o", "o", "l">>,
     location |-> <<"W", "e", "s", "t", "s", "i", "d", "e">>],
    [id |-> "9", type |-> "private",
     name |-> <<"C", "e", "n", "t", "r", "a", "l", " ", "C", "i", "t", "y", " ", "A", "c", "a", "d", "e", "m", "y">>,
     location |-> <<"C", "e", "n", "t", "r", "a", "l", " ", "C", "i", "t", "y">>],
    [id |-> "10", type |-> "public",
     name |-> <<"C", "e", "n", "t", "r", "a", "l", " ", "H", "i", "g", "h", " ", "S", "c", "h", "o", "o", "l">>,
     location |-> <<"C", "e", "n", "t", "r", "a", "l", " ", "C", "i", "t", "y">>],
    [id |-> "11", type |-> "public",
     name |-> <<"N", "o", "r", "t", "h", "v", "i", "e", "w", " ", "E", "l", "e", "m", "e", "n", "t", "a", "r", "y">>,
     location |-> <<"N", "o", "r", "t", "h", "v", "i", "e", "w">>],
    [id |-> "12", type |-> "public",
     name |-> <<"N", "o", "r", "t", "h", "v", "i", "e", "w", " ", "M", "i", "d", "d", "l", "e", " ", "S", "c", "h", "o", "o", "l">>,
     location |-> <<"N", "o", "r", "t", "h", "v", "i", "e", "w">>],
    [id |-> "13", type |-> "private",
     name |-> <<"S", "o", "u", "t", "h", "s", "i", "d", "e", " ", "A", "c", "a", "d", "e", "m", "y">>,
     location |-> <<"S", "o", "u", "t", "h", "s", "i", "d", "e">>],
    [id |-> "14", type |-> "private",
     name |-> <<"L", "a", "k", "e", "s", "i", "d", "e", " ", "A", "c", "a", "d", "e", "m", "y">>,
     location |-> <<"L", "a", "k", "e", "s", "i", "d", "e">>],
    [id |-> "15", type |-> "public",
     name |-> <<"M", "o", "u", "n", "t", "a", "i", "n", " ", "V", "i", "e", "w", " ", "S", "c", "h", "o", "o", "l">>,
     location |-> <<"M", "o", "u", "n", "t", "a", "i", "n", " ", "V", "i", "e", "w">>],
    [id |-> "16", type |-> "private",
     name |-> <<"V", "a", "l", "l", "e", "y", " ", "H", "e", "i", "g", "h", "t", "s", " ", "A", "c", "a", "d", "e", "m", "y">>,
     location |-> <<"V", "a", "l", "l", "e", "y", " ", "H", "e", "i", "g", "h", "t", "s">>]
  >>

\* a lookup that compares the names with the query as typed
FetchSchoolsResultCaseSensitive(query) ==
  IF query = <<>> \/ Len(Trim(query)) < MinQueryLength
  THEN <<>>
  ELSE LET searchTerm == Trim(query)
           Match(i) == Includes(ToLowerCase(MOCK_SCHOOLS[i].name), searchTerm)
       IN  Slice0(Ascending({i \in 1..Len(MOCK_SCHOOLS) : Match(i)}), MaxResults)

\* The value fetchSchools resolves to when it is not aborted: the positions
\* (1-based, directory order) in MOCK_SCHOOLS of the first MaxResults schools
\* whose lower-cased name contains the lower-cased, trimmed query.
FetchSchoolsResult(query) ==
  IF query = <<>> \/ Len(Trim(query)) < MinQueryLength
  THEN <<>>
  ELSE LET searchTerm == Trim(ToLowerCase(query))
           Match(i) == Includes(ToLowerCase(MOCK_SCHOOLS[i].name), searchTerm)
       IN  Slice0(Ascending({i \in 1..Len(MOCK_SCHOOLS) : Match(i)}), MaxResults)

SchoolName(i) == MOCK_SCHOOLS[i].name

(***************************************************************************)
(* Validation engine and duplicate detector (excel_validations).           *)
(* A row is a function from field names to values; a field the row lacks   *)
(* reads as Undefined.                                                     *)
(***************************************************************************)
\* JavaScript undefined: a value that is no string of characters
Undefined == <<"undefined">>

\* row[column]
Get(row, column) == IF column \in DOMAIN row THEN row[column] ELSE Undefined

\* { ...row, [column]: value }
WithField(row, column, value) ==
  [f \in (DOMAIN row) \cup {column} |-> IF f = column THEN value ELSE row[f]]

NoIssue == "ok"

\* ExcelRowSchema.school.safeParse(value): the message of the first issue
SchoolIssue(value) ==
  IF value \in {Undefined, None} THEN "School is required"
  ELSE IF Len(value) < SchoolMinLen THEN "School must be at least 2 characters"
  ELSE IF Len(value) > SchoolMaxLen THEN "School name too long"
  ELSE NoIssue

NameMinLen == 2
NameMaxLen == 100

\* ExcelRowSchema.name.safeParse(value): the message of the first issue
NameIssue(value) ==
  IF value \in {Undefined, None} THEN "Name is required"
  ELSE IF Len(value) < NameMinLen THEN "Name must be at least 2 characters"
  ELSE IF Len(value) > NameMaxLen THEN "Name cannot exceed 100 characters"
  ELSE NoIssue

\* the character classes of the pattern behind z.string().email()
Letters == (DOMAIN UpperToLower) \cup {UpperToLower[c] : c \in DOMAIN UpperToLower}
Digits == {"0", "1", "2", "3", "4", "5", "6", "7", "8", "9"}
EmailLocalLast == Letters \cup Digits \cup {"_", "+", "-"}
EmailLocalChars == EmailLocalLast \cup {"'", "."}
EmailLabelChars == Letters \cup Digits \cup {"-"}

\* the pattern of z.string().email():
\*   ^(?!\.)(?!.*\.\.)([A-Za-z0-9_'+\-\.]*)[A-Za-z0-9_+-]@
\*    ([A-Za-z0-9][A-Za-z0-9\-]*\.)+[A-Za-z]{2,}$
IsEmail(s) ==
  LET ats == {i \in 1..Len(s) : s[i] = "@"}
  IN  /\ Cardinality(ats) = 1
      /\ LET at == CHOOSE i \in ats : TRUE
             local == SubSeq(s, 1, at - 1)
             domain == SubSeq(s, at + 1, Len(s))
             dots == {i \in 1..Len(domain) : domain[i] = "."}
         IN  /\ Len(local) >= 1
             /\ local[1] # "."
             /\ \A i \in 1..(Len(s) - 1) : ~(s[i] = "." /\ s[i + 1] = ".")
             /\ \A i \in 1..Len(local) : local[i] \in EmailLocalChars
             /\ local[Len(local)] \in EmailLocalLast
             /\ dots # {}
             /\ LET last == CHOOSE d \in dots : \A e \in dots : e <= d
                IN  /\ Len(domain) - last >= 2
                    /\ \A i \in (last + 1)..Len(domain) : domain[i] \in Letters
                    /\ \A i \in 1..(last - 1) :
                         IF i = 1 \/ domain[Max(i - 1, 1)] = "."
                         THEN domain[i] \in Letters \cup Digits
                         ELSE domain[i] \in EmailLabelChars \cup {"."}
                    /\ last > 1

\* ExcelRowSchema.email.safeParse(value): the message of the first issue; the
\* email check precedes min(1), so an empty string reports the format
EmailIssue(value) ==
  IF value \in {Undefined, None} THEN "Email is required"
  ELSE IF ~IsEmail(value) THEN "Invalid email format"
  ELSE NoIssue

\* Number(value), the coercion of z.coerce.number, as a decimal fraction
\* num / den with den a power of ten, den = 0 marking NaN: undefined is NaN,
\* null is 0, a string is trimmed and read as a signed decimal literal, the
\* empty string being 0.  A numeric cell is held as its decimal string, which
\* Number reads back as the same number.  Exponent, hexadecimal and Infinity
\* literals and numbers beyond the safe-integer range are not among the cell
\* values drawn.
ToNumber(value) ==
  LET DigitValue(c) ==
        CASE c = "0" -> 0 [] c = "1" -> 1 [] c = "2" -> 2 [] c = "3" -> 3 [] c = "4" -> 4
          [] c = "5" -> 5 [] c = "6" -> 6 [] c = "7" -> 7 [] c = "8" -> 8 [] c = "9" -> 9
      RECURSIVE DigitsValue(_)
      DigitsValue(t) ==
        IF t = <<>> THEN 0
        ELSE 10 * DigitsValue(SubSeq(t, 1, Len(t) - 1)) + DigitValue(t[Len(t)])
      RECURSIVE Pow10(_)
      Pow10(n) == IF n = 0 THEN 1 ELSE 10 * Pow10(n - 1)
      AllDigits(t) == \A i \in 1..Len(t) : t[i] \in Digits
  IN  IF value = Undefined THEN [num |-> 0, den |-> 0]
      ELSE IF value = None THEN [num |-> 0, den |-> 1]
      ELSE LET s == Trim(value)
               signed == s # <<>> /\ s[1] \in {"+", "-"}
               sign == IF s # <<>> /\ s[1] = "-" THEN -1 ELSE 1
               body == IF signed THEN Tail(s) ELSE s
               dots == {i \in 1..Len(body) : body[i] = "."}
               point == IF dots = {} THEN Len(body) + 1
                        ELSE CHOOSE d \in dots : \A e \in dots : d <= e
               whole == SubSeq(body, 1, point - 1)
               frac == SubSeq(body, point + 1, Len(body))
           IN  IF s = <<>> THEN [num |-> 0, den |-> 1]
               ELSE IF AllDigits(whole) /\ AllDigits(frac) /\ Len(whole) + Len(frac) > 0
                    THEN [num |-> sign * (DigitsValue(whole) * Pow10(Len(frac))
                                            + DigitsValue(frac)),
                          den |-> Pow10(Len(frac))]
                    ELSE [num |-> 0, den |-> 0]

AgeMin == 0
AgeMax == 150

\* ExcelRowSchema.age.safeParse(value): the message of the first issue; the
\* checks run in the order number, int, min, max
AgeIssue(value) ==
  LET n == ToNumber(value)
  IN  IF n.den = 0 THEN "Age must be a number"
      ELSE IF n.num % n.den # 0 THEN "Age must be a whole number"
      ELSE IF n.num < AgeMin * n.den THEN "Age cannot be negative"
      ELSE IF n.num > AgeMax * n.den THEN "Age cannot exceed 150"
      ELSE NoIssue

\* the members of the department enum
Departments ==
  { <<"E", "n", "g", "i", "n", "e", "e", "r", "i", "n", "g">>,
    <<"M", "a", "r", "k", "e", "t", "i", "n", "g">>,
    <<"S", "a", "l", "e", "s">>,
    <<"H", "R">>,
    <<"F", "i", "n", "a", "n", "c", "e">> }

\* an enum test that ignores letter case
DepartmentIssueIgnoringCase(value) ==
  IF ToLowerCase(value) \in {ToLowerCase(d) : d \in Departments} THEN NoIssue
  ELSE "Invalid department.  Must be: Engineering, Marketing, Sales, HR, or Finance"

\* ExcelRowSchema.department.safeParse(value): the one message of the enum
DepartmentIssue(value) ==
  IF value \in Departments THEN NoIssue
  ELSE "Invalid department.  Must be: Engineering, Marketing, Sales, HR, or Finance"

\* the fields of ExcelRowSchema.shape that the modelled datasets contain (phone
\* and joinDate are in no modelled dataset)
ShapeColumns == {"email", "name", "age", "department", "school"}

\* names that `column in shape` finds although the schema declares no such
\* field: shape is a plain object, and the in operator also sees the properties
\* it inherits from Object.prototype
ObjectPrototypeKeys ==
  {"constructor", "toString", "valueOf", "hasOwnProperty", "isPrototypeOf",
   "propertyIsEnumerable", "toLocaleString", "__proto__"}

\* shape[column].safeParse(value)
FieldIssue(column, value) ==
  CASE column = "email" -> EmailIssue(value)
    [] column = "name" -> NameIssue(value)
    [] column = "age" -> AgeIssue(value)
    [] column = "department" -> DepartmentIssue(value)
    [] column = "school" -> SchoolIssue(value)

\* validateCell: the error of one cell as a sequence of zero or one CellError.
\* For an inherited name shape[column] is no schema, the safeParse call throws
\* and the catch block returns its error.
ValidateCell(column, value, row) ==
  IF column \in ShapeColumns
  THEN IF FieldIssue(column, value) # NoIssue
       THEN <<[row |-> row, column |-> column,
               message |-> FieldIssue(column, value), value |-> value]>>
       ELSE <<>>
  ELSE IF column \in ObjectPrototypeKeys
       THEN <<[row |-> row, column |-> column, message |-> "Validation error", value |-> value]>>
       ELSE <<>>

RECURSIVE ValidateRow(_, _, _, _)
ValidateRow(row, rowIndex, cols, c) ==
  IF c > Len(cols) THEN <<>>
  ELSE (IF cols[c] = "id" THEN <<>> ELSE ValidateCell(cols[c], Get(row, cols[c]), rowIndex))
       \o ValidateRow(row, rowIndex, cols, c + 1)

RECURSIVE ValidateFrom(_, _, _)
ValidateFrom(rows, cols, i) ==
  IF i > Len(rows) THEN <<>>
  ELSE ValidateRow(rows[i], i - 1, cols, 1) \o ValidateFrom(rows, cols, i + 1)

\* validateAllCells: row positions are 0-based as in the code
ValidateAllCells(rows, cols) == ValidateFrom(rows, cols, 1)

\* a key test that lets absent and empty keys through
HasKeyAlways(row, uniqueKey) == TRUE

\* keyValue !== undefined && keyValue !== null && keyValue !== ""
HasKey(row, uniqueKey) ==
  /\ Get(row, uniqueKey) # Undefined
  /\ Get(row, uniqueKey) # None
  /\ Get(row, uniqueKey) # <<>>

RECURSIVE FindDuplicatesFrom(_, _, _, _)
FindDuplicatesFrom(rows, uniqueKey, i, seen) ==
  IF i > Len(rows) THEN <<>>
  ELSE IF HasKey(rows[i], uniqueKey)
       THEN IF Get(rows[i], uniqueKey) \in seen
            THEN <<i - 1>> \o FindDuplicatesFrom(rows, uniqueKey, i + 1, seen)
            ELSE FindDuplicatesFrom(rows, uniqueKey, i + 1, seen \cup {Get(rows[i], uniqueKey)})
       ELSE FindDuplicatesFrom(rows, uniqueKey, i + 1, seen)

\* a detector that pushes seen.get(keyValue), the position of the first
\* occurrence, for every repeat
FindDuplicatesReportingFirst(rows, uniqueKey) ==
  LET found == FindDuplicatesFrom(rows, uniqueKey, 1, {})
      First(i) == CHOOSE j \in 1..i :
                    /\ Get(rows[j], uniqueKey) = Get(rows[i], uniqueKey)
                    /\ \A l \in 1..(j - 1) : Get(rows[l], uniqueKey) # Get(rows[i], uniqueKey)
  IN  IF found = <<>> THEN <<>>
      ELSE [x \in 1..Len(found) |-> First(found[x] + 1) - 1]

\* findDuplicates: the 0-based positions of the repeats, in row order
FindDuplicates(rows, uniqueKey) == FindDuplicatesFrom(rows, uniqueKey, 1, {})

(***************************************************************************)
(* State.                                                                  *)
(***************************************************************************)
VARIABLES
  \* ---- the zustand store (ExcelUploadState) ----
  data,               \* ExcelRow[]
  columns,            \* string[]
  cellErrors,         \* CellError[]
  duplicates,         \* number[]
  isProcessing,
  fileName,
  currentPage,
  pageSize,
  selectedRowIds,     \* Set<string>
  isDeleteDialogOpen,
  autocomplete,       \* AutocompleteState
  \* ---- AutocompleteCell instances and the browser ----
  debounceTimers,     \* pending setTimeout callbacks of handleInputChange: [cell, value]
  abortControllerRef, \* per cell: the request whose controller the ref holds, 0 for null
  requests,           \* unsettled fetchSuggestions calls: id -> [cell, query, aborted, phase]
  nextRequest,        \* number of requests issued so far
  focused,            \* the cell whose input has DOM focus, or None
  \* ---- history ----
  suggestionsFrom,    \* the cell whose request produced autocomplete.suggestions, or None
  discarded,          \* timers and requests that were pending when a session was reset
  \* ---- ExcelUploader: processExcelFile calls suspended at await file.arrayBuffer() ----
  pendingReads,       \* set of [n, file]: the n-th dropped file, still being read
  ingests,            \* number of files dropped so far
  \* ---- ExcelUploader: what handleComplete last wrote to the console ----
  payload             \* the jsonPayload, <<>> before the first submission

storeVars == <<data, columns, cellErrors, duplicates, isProcessing, fileName,
               currentPage, pageSize, selectedRowIds, isDeleteDialogOpen, autocomplete>>
cellVars == <<debounceTimers, abortControllerRef, requests, nextRequest, focused>>
historyVars == <<suggestionsFrom, discarded>>
ingestVars == <<pendingReads, ingests, payload>>
vars == <<storeVars, cellVars, historyVars, ingestVars>>

\* initialAutocompleteState
initialAutocompleteState ==
  [activeCellKey |-> None, searchQuery |-> <<>>, suggestions |-> <<>>,
   isLoading |-> FALSE, highlightedIndex |-> -1]

(***************************************************************************)
(* Store operations (excel_upload_store), as functions of the part of the  *)
(* state they replace.                                                     *)
(***************************************************************************)
SetActiveAutocompleteCell(ac, cellKey) ==
  [ac EXCEPT !.activeCellKey = cellKey,
             !.suggestions = IF cellKey # None THEN ac.suggestions ELSE <<>>,
             !.highlightedIndex = -1]

SetAutocompleteQuery(ac, query) ==
  [ac EXCEPT !.searchQuery = query, !.highlightedIndex = -1]

SetAutocompleteSuggestions(ac, suggestions) ==
  [ac EXCEPT !.suggestions = suggestions, !.isLoading = FALSE]

SetAutocompleteLoading(ac, isLoading) ==
  [ac EXCEPT !.isLoading = isLoading]

SetAutocompleteHighlightedIndex(ac, index) ==
  [ac EXCEPT !.highlightedIndex = index]

ResetAutocomplete == initialAutocompleteState

\* a map that forgets the index test
UpdateCellInEveryRow(rows, rowIndex, column, value) ==
  [i \in 1..Len(rows) |-> WithField(rows[i], column, value)]

\* updateCell: rowIndex is a 0-based position
UpdateCell(rows, rowIndex, column, value) ==
  [i \in 1..Len(rows) |->
     IF i - 1 = rowIndex THEN WithField(rows[i], column, value) ELSE rows[i]]

(***************************************************************************)
(* ExcelDataTable: pagination and the cells it mounts.                     *)
(***************************************************************************)
\* Math.ceil(a / b) for a >= 0, b > 0
Ceil(a, b) == (a + b - 1) \div b

TotalPages == Ceil(Len(data), pageSize)
StartIndex == (currentPage - 1) * pageSize
EndIndex == Min(StartIndex + pageSize, Len(data))

\* the 1-based positions of paginatedData = data.slice(startIndex, endIndex)
PagePositionsOf(rows, page, size) ==
  {i \in 1..Len(rows) : (page - 1) * size < i /\ i <= Min((page - 1) * size + size, Len(rows))}

PagePositions == PagePositionsOf(data, currentPage, pageSize)

\* cellKey = `${row.id}-${column}`
CellKey(rowId, column) == <<rowId, column>>

\* the AutocompleteCell instances rendered by a table showing rows at positions pos
MountedIn(rows, cols, pos) ==
  {CellKey(rows[i].id, cols[c]) :
     i \in pos, c \in {d \in 1..Len(cols) : cols[d] \in AUTOCOMPLETE_COLUMNS}}

MountedCells == MountedIn(data, columns, PagePositions)

\* the 0-based position (actualRowIndex) of the row a mounted cell belongs to
RowIndexOf(k) == (CHOOSE i \in 1..Len(data) : data[i].id = k[1]) - 1

\* the value prop: String(row[column] ?? "")
ValueOf(k) ==
  LET v == Get(data[RowIndexOf(k) + 1], k[2])
  IN  IF v = Undefined THEN <<>> ELSE v

(***************************************************************************)
(* AutocompleteCell.  The part of the state fetchSuggestions touches is    *)
(* passed as a record st = [ac, requests, ref, next, from].                *)
(***************************************************************************)
\* abort() that reaches no listener: the request goes on as if nothing happened
AbortIgnored(reqs, id) == reqs

\* AbortController.abort() on the controller of request id, with the abort
\* listener registered by fetchSchools: clearTimeout and reject
Abort(reqs, id) ==
  IF id \in DOMAIN reqs
  THEN [reqs EXCEPT ![id] = [@ EXCEPT !.aborted = TRUE,
                                      !.phase = IF @ = "latency" THEN "rejected" ELSE @]]
  ELSE reqs

\* fetchSuggestions without its first line
AbortPreviousOmitted(reqs, ref, k) == reqs

\* abortControllerRef.current?.abort() at the start of fetchSuggestions
AbortPrevious(reqs, ref, k) == Abort(reqs, ref[k])

\* a fetchSuggestions without the minimum-length test
IssuesAnyLength(query) == TRUE

\* whether fetchSuggestions(query) goes on to issue a request
Issues(query) == Len(query) >= minSearchLength

\* fetchSuggestions up to its await
FetchSuggestions(st, k, query) ==
  LET cancelled == AbortPrevious(st.requests, st.ref, k)
      id == st.next + 1
  IN  IF ~Issues(query)
      THEN [st EXCEPT !.requests = cancelled,
                      !.ac = SetAutocompleteSuggestions(st.ac, <<>>),
                      !.from = None]
      ELSE [st EXCEPT !.requests =
                         [r \in (DOMAIN cancelled) \cup {id} |->
                            IF r = id
                            THEN [cell |-> k, query |-> query,
                                  aborted |-> FALSE, phase |-> "latency"]
                            ELSE cancelled[r]],
                      !.ref = [st.ref EXCEPT ![k] = id],
                      !.next = id,
                      !.ac = SetAutocompleteLoading(st.ac, TRUE)]

\* a catch block that treats AbortError like any other failure
FetchCatchClearsAlways(ac, isAbortError) == SetAutocompleteSuggestions(ac, <<>>)

\* a catch block that swallows every error without touching the store
FetchCatchSwallowsAll(ac, isAbortError) == ac

\* the catch block of fetchSuggestions
FetchCatch(ac, isAbortError) ==
  IF ~isAbortError THEN SetAutocompleteSuggestions(ac, <<>>) ELSE ac

\* handleInputChange without clearTimeout
ClearDebounceOmitted(timers, k) == timers

\* clearTimeout(debounceRef.current) of cell k
ClearDebounce(timers, k) == {t \in timers : t.cell # k}

\* handleFocus body: activate, then fetch when the value is long enough
FocusCell(st, k, value) ==
  LET activated == [st EXCEPT !.ac = SetActiveAutocompleteCell(st.ac, k)]
  IN  IF Len(value) >= minSearchLength
      THEN FetchSuggestions(activated, k, value)
      ELSE activated

\* dropdownRef.current is set: one of the two dropdown elements is rendered
DropdownRendered(k) ==
  /\ autocomplete.activeCellKey = k
  /\ \/ Len(autocomplete.suggestions) > 0
     \/ autocomplete.isLoading
     \/ Len(ValueOf(k)) >= minSearchLength

\* the suggestion list items are rendered for cell k
ListShown(k) ==
  /\ autocomplete.activeCellKey = k
  /\ Len(autocomplete.suggestions) > 0
  /\ ~autocomplete.isLoading

\* no promise reaction is queued: the catch of an aborted fetchSuggestions runs
\* as a microtask, before the event loop takes the next event or timer
MicrotasksDone == \A r \in DOMAIN requests : requests[r].phase \notin {"rejected", "failed"}

St == [ac |-> autocomplete, requests |-> requests, ref |-> abortControllerRef,
       next |-> nextRequest, from |-> suggestionsFrom]

\* the timers and requests that are pending
Pending(timers, reqs) ==
  [timers |-> timers, requests |-> {r \in DOMAIN reqs : reqs[r].phase = "latency"}]

NothingDiscarded == [timers |-> {}, requests |-> {}]

\* history: what a reset leaves behind, restricted to what is still pending
Discard(old, timers, reqs) ==
  [timers |-> (old.timers \cup timers),
   requests |-> (old.requests \cup Pending(timers, reqs).requests)]

StillPending(d, timers, reqs) ==
  [timers |-> d.timers \cap timers,
   requests |-> d.requests \cap Pending(timers, reqs).requests]

(***************************************************************************)
(* The autocomplete specification: a table of two rows with the single     *)
(* column school, both on the first page, as left by a completed ingest.   *)
(***************************************************************************)
RowIds == {"r1", "r2"}
AllCellKeys == {CellKey(id, "school") : id \in RowIds}

\* the values a change event of the input may carry
TypedValues == {<<"s">>, <<"l", "a">>}

\* the school values of the ingested file
IngestedData ==
  << [id |-> "r1", school |-> <<"s", "p">>], [id |-> "r2", school |-> <<>>] >>

Init ==
  /\ data = IngestedData
  /\ columns = <<"school">>
  /\ cellErrors = ValidateAllCells(IngestedData, <<"school">>)
  /\ duplicates = FindDuplicates(IngestedData, "email")
  /\ isProcessing = FALSE
  /\ fileName = <<"schools.xlsx">>
  /\ currentPage = 1
  /\ pageSize = InitialPageSize
  /\ selectedRowIds = {}
  /\ isDeleteDialogOpen = FALSE
  /\ autocomplete = initialAutocompleteState
  /\ debounceTimers = {}
  /\ abortControllerRef = [k \in AllCellKeys |-> 0]
  /\ requests = <<>>
  /\ nextRequest = 0
  /\ focused = None
  /\ suggestionsFrom = None
  /\ discarded = NothingDiscarded
  /\ pendingReads = {}
  /\ ingests = 1
  /\ payload = <<>>

ApplySt(s) ==
  /\ autocomplete' = s.ac
  /\ requests' = s.requests
  /\ abortControllerRef' = s.ref
  /\ nextRequest' = s.next
  /\ suggestionsFrom' = s.from

\* a handleCellUpdate that stops after updateCell
HandleCellUpdateOnly(rowIndex, column, value) ==
  /\ data' = UpdateCell(data, rowIndex, column, value)
  /\ UNCHANGED <<cellErrors, duplicates>>

\* a handleCellUpdate that adds the new errors to the stored ones
HandleCellUpdateAppending(rowIndex, column, value) ==
  LET updatedData == UpdateCell(data, rowIndex, column, value)
  IN  /\ data' = updatedData
      /\ cellErrors' = cellErrors \o ValidateAllCells(updatedData, columns)
      /\ duplicates' = FindDuplicates(updatedData, "email")

\* handleCellUpdate: updateCell, then validateAllCells and findDuplicates
HandleCellUpdate(rowIndex, column, value) ==
  LET updatedData == UpdateCell(data, rowIndex, column, value)
  IN  /\ data' = updatedData
      /\ cellErrors' = ValidateAllCells(updatedData, columns)
      /\ duplicates' = FindDuplicates(updatedData, "email")

tableVars == <<columns, isProcessing, fileName, currentPage, pageSize,
               selectedRowIds, isDeleteDialogOpen, pendingReads, ingests, payload>>
rowVars == <<data, cellErrors, duplicates>>

\* onFocus of the input of cell k, focus arriving from outside the cells
HandleFocus(k) ==
  /\ MicrotasksDone
  /\ ~isDeleteDialogOpen
  /\ k \in MountedCells
  /\ focused = None
  /\ Issues(ValueOf(k)) => nextRequest < MaxRequests
  /\ ApplySt(FocusCell(St, k, ValueOf(k)))
  /\ focused' = k
  /\ discarded' = NothingDiscarded
  /\ UNCHANGED <<tableVars, rowVars, debounceTimers>>

\* onChange of the input of cell k
HandleInputChange(k, newValue) ==
  /\ MicrotasksDone
  /\ ~isDeleteDialogOpen
  /\ k \in MountedCells
  /\ focused = k
  /\ newValue # ValueOf(k)
  /\ HandleCellUpdate(RowIndexOf(k), k[2], newValue)
  /\ autocomplete' = SetAutocompleteQuery(autocomplete, newValue)
  /\ debounceTimers' = ClearDebounce(debounceTimers, k) \cup {[cell |-> k, value |-> newValue]}
  /\ discarded' = [discarded EXCEPT !.timers = {t \in @ : t.cell # k}]
  /\ UNCHANGED <<tableVars, abortControllerRef, requests, nextRequest, focused, suggestionsFrom>>

\* the debounce timeout of handleInputChange expires: fetchSuggestions(newValue)
DebounceElapsed(t) ==
  /\ MicrotasksDone
  /\ t \in debounceTimers
  /\ Issues(t.value) => nextRequest < MaxRequests
  /\ ApplySt(FetchSuggestions(St, t.cell, t.value))
  /\ debounceTimers' = debounceTimers \ {t}
  /\ discarded' = StillPending(discarded, debounceTimers', requests')
  /\ UNCHANGED <<tableVars, rowVars, focused>>

\* the latency timeout of fetchSchools expires and fetchSuggestions resumes
LatencyElapsed(r) ==
  /\ MicrotasksDone
  /\ r \in DOMAIN requests
  /\ requests[r].phase = "latency"
  /\ IF requests[r].aborted
     THEN /\ autocomplete' = FetchCatch(autocomplete, TRUE)
          /\ UNCHANGED suggestionsFrom
     ELSE /\ autocomplete' = SetAutocompleteSuggestions(autocomplete, FetchSchoolsResult(requests[r].query))
          /\ suggestionsFrom' = requests[r].cell
  /\ requests' = [q \in (DOMAIN requests) \ {r} |-> requests[q]]
  /\ discarded' = StillPending(discarded, debounceTimers, requests')
  /\ UNCHANGED <<tableVars, rowVars, debounceTimers, abortControllerRef, nextRequest, focused>>

\* the rejection of an aborted fetchSchools reaches the catch of fetchSuggestions
AbortCatch(r) ==
  /\ r \in DOMAIN requests
  /\ requests[r].phase = "rejected"
  /\ autocomplete' = FetchCatch(autocomplete, TRUE)
  /\ suggestionsFrom' = IF autocomplete' = autocomplete THEN suggestionsFrom ELSE None
  /\ requests' = [q \in (DOMAIN requests) \ {r} |-> requests[q]]
  /\ discarded' = StillPending(discarded, debounceTimers, requests')
  /\ UNCHANGED <<tableVars, rowVars, debounceTimers, abortControllerRef, nextRequest, focused>>

Keys == {"ArrowDown", "ArrowUp", "Enter", "Escape", "Tab"}

\* handleKeyDown passes its first line: !isActive || suggestions.length === 0
KeyDownHandled(k) ==
  autocomplete.activeCellKey = k /\ Len(autocomplete.suggestions) # 0

\* Enter reaches handleSelectSuggestion with an existing suggestion; with
\* highlightedIndex >= suggestions.length the argument is undefined and
\* school.name throws before anything is changed
EnterSelects(k) ==
  /\ KeyDownHandled(k)
  /\ autocomplete.highlightedIndex >= 0
  /\ autocomplete.highlightedIndex < Len(autocomplete.suggestions)

\* the autocomplete state handleKeyDown of cell k leaves
KeyDownAutocomplete(k, key) ==
  IF ~KeyDownHandled(k) THEN autocomplete
  ELSE CASE key = "ArrowDown" ->
              SetAutocompleteHighlightedIndex(autocomplete,
                Min(autocomplete.highlightedIndex + 1, Len(autocomplete.suggestions) - 1))
         [] key = "ArrowUp" ->
              SetAutocompleteHighlightedIndex(autocomplete,
                Max(autocomplete.highlightedIndex - 1, -1))
         [] key = "Enter" ->
              IF EnterSelects(k) THEN ResetAutocomplete ELSE autocomplete
         [] key \in {"Escape", "Tab"} -> ResetAutocomplete

\* the rows handleKeyDown of cell k leaves: Enter commits the highlighted name
KeyDownData(k, key) ==
  IF key = "Enter" /\ EnterSelects(k)
  THEN UpdateCell(data, RowIndexOf(k), k[2],
                  SchoolName(autocomplete.suggestions[autocomplete.highlightedIndex + 1]))
  ELSE data

\* onKeyDown of the input of cell k
HandleKeyDown(k, key) ==
  /\ MicrotasksDone
  /\ ~isDeleteDialogOpen
  /\ k \in MountedCells
  /\ focused = k
  /\ autocomplete' = KeyDownAutocomplete(k, key)
  /\ IF key = "Enter" /\ EnterSelects(k)
     THEN /\ data' = KeyDownData(k, key)
          /\ cellErrors' = ValidateAllCells(data', columns)
          /\ duplicates' = FindDuplicates(data', "email")
     ELSE UNCHANGED rowVars
  /\ suggestionsFrom' = IF autocomplete'.suggestions = <<>> THEN None ELSE suggestionsFrom
  /\ discarded' = IF KeyDownHandled(k) /\ key \in {"Escape", "Tab"}
                  THEN Discard(discarded, debounceTimers, requests)
                  ELSE discarded
  \* Tab is not prevented: focus leaves the input
  /\ focused' = IF key = "Tab" THEN None ELSE focused
  /\ UNCHANGED <<tableVars, debounceTimers, abortControllerRef, requests, nextRequest>>

Dropdown == <<"dropdown">>
Elsewhere == <<"elsewhere">>

\* handleClickOutside of the active cell resets: the target is outside its
\* input and outside its rendered dropdown
ClickOutsideResets(target) ==
  /\ autocomplete.activeCellKey \in MountedCells
  /\ target # autocomplete.activeCellKey
  /\ target # Dropdown
  /\ DropdownRendered(autocomplete.activeCellKey)

\* where a mousedown can land
MouseTargets ==
  IF isDeleteDialogOpen THEN {Elsewhere}
  ELSE MountedCells \cup {Elsewhere}
       \cup (IF \E k \in MountedCells : DropdownRendered(k) THEN {Dropdown} ELSE {})

\* a mousedown on the document: the handleClickOutside listeners run, then the
\* browser moves focus (onFocus of the input under the pointer, if any)
MouseDown(target) ==
  /\ MicrotasksDone
  /\ target \in MouseTargets
  /\ LET afterClick == IF ClickOutsideResets(target)
                       THEN [St EXCEPT !.ac = ResetAutocomplete, !.from = None]
                       ELSE St
         gainsFocus == target \in MountedCells /\ focused # target
     IN  /\ (gainsFocus /\ Issues(ValueOf(target))) => nextRequest < MaxRequests
         /\ ApplySt(IF gainsFocus THEN FocusCell(afterClick, target, ValueOf(target))
                    ELSE afterClick)
         /\ discarded' = IF gainsFocus THEN NothingDiscarded
                         ELSE IF ClickOutsideResets(target)
                              THEN Discard(discarded, debounceTimers, requests)
                              ELSE discarded
  /\ focused' = IF target \in MountedCells THEN target ELSE None
  /\ UNCHANGED <<tableVars, rowVars, debounceTimers>>

\* onMouseEnter of the list item at 0-based index
MouseEnterSuggestion(index) ==
  /\ MicrotasksDone
  /\ ~isDeleteDialogOpen
  /\ autocomplete.activeCellKey \in MountedCells
  /\ ListShown(autocomplete.activeCellKey)
  /\ index \in 0..(Len(autocomplete.suggestions) - 1)
  /\ autocomplete' = SetAutocompleteHighlightedIndex(autocomplete, index)
  /\ UNCHANGED <<tableVars, rowVars, cellVars, historyVars>>

\* onClick of the list item at 0-based index: handleSelectSuggestion, whose
\* inputRef.focus() runs handleFocus of the render the click happened in
ClickSuggestion(index) ==
  LET k == autocomplete.activeCellKey
      oldValue == ValueOf(k)
  IN  /\ MicrotasksDone
      /\ ~isDeleteDialogOpen
      /\ k \in MountedCells
      /\ ListShown(k)
      /\ focused # k
      /\ index \in 0..(Len(autocomplete.suggestions) - 1)
      /\ Issues(oldValue) => nextRequest < MaxRequests
      /\ HandleCellUpdate(RowIndexOf(k), k[2], SchoolName(autocomplete.suggestions[index + 1]))
      /\ ApplySt(FocusCell([St EXCEPT !.ac = ResetAutocomplete, !.from = None], k, oldValue))
      /\ focused' = k
      /\ discarded' = NothingDiscarded
      /\ UNCHANGED <<tableVars, debounceTimers>>

\* the cleanup effect of every unmounted cell: clearTimeout and abort; a cell
\* mounted later starts with empty refs
RECURSIVE AbortAll(_, _, _)
AbortAll(reqs, ref, cells) ==
  IF cells = {} THEN reqs
  ELSE LET k == CHOOSE c \in cells : TRUE
       IN  AbortAll(Abort(reqs, ref[k]), ref, cells \ {k})

Cleanup(unmounted) ==
  /\ debounceTimers' = {t \in debounceTimers : t.cell \notin unmounted}
  /\ requests' = AbortAll(requests, abortControllerRef, unmounted)
  /\ abortControllerRef' = [k \in AllCellKeys |->
                              IF k \in unmounted THEN 0 ELSE abortControllerRef[k]]
  /\ focused' = IF focused \in unmounted THEN None ELSE focused
  /\ discarded' = StillPending(discarded, debounceTimers', requests')

\* a clearAll that leaves the pagination as it is
ClearAllKeepingPagination ==
  /\ MicrotasksDone
  /\ ~isDeleteDialogOpen
  /\ focused = None
  /\ Len(data) > 0
  /\ data' = <<>>
  /\ cellErrors' = <<>>
  /\ duplicates' = <<>>
  /\ isProcessing' = FALSE
  /\ fileName' = None
  /\ UNCHANGED <<currentPage, pageSize>>
  /\ columns' = <<>>
  /\ selectedRowIds' = {}
  /\ isDeleteDialogOpen' = FALSE
  /\ autocomplete' = initialAutocompleteState
  /\ suggestionsFrom' = None
  /\ Cleanup(MountedCells)
  /\ UNCHANGED <<nextRequest, ingestVars>>

\* the Clear All button, rendered while the store holds rows: clearAll, after
\* which the table and every cell in it are unmounted
ClearAll ==
  /\ MicrotasksDone
  /\ ~isDeleteDialogOpen
  /\ focused = None
  /\ Len(data) > 0
  /\ data' = <<>>
  /\ cellErrors' = <<>>
  /\ duplicates' = <<>>
  /\ isProcessing' = FALSE
  /\ fileName' = None
  /\ currentPage' = 1
  /\ pageSize' = InitialPageSize
  /\ columns' = <<>>
  /\ selectedRowIds' = {}
  /\ isDeleteDialogOpen' = FALSE
  /\ autocomplete' = initialAutocompleteState
  /\ suggestionsFrom' = None
  /\ Cleanup(MountedCells)
  /\ UNCHANGED <<nextRequest, ingestVars>>

Next ==
  \/ \E k \in AllCellKeys : HandleFocus(k)
  \/ \E k \in AllCellKeys, v \in TypedValues : HandleInputChange(k, v)
  \/ \E k \in AllCellKeys, key \in Keys : HandleKeyDown(k, key)
  \/ \E target \in AllCellKeys \cup {Dropdown, Elsewhere} : MouseDown(target)
  \/ \E index \in 0..(MaxResults - 1) : MouseEnterSuggestion(index)
  \/ \E index \in 0..(MaxResults - 1) : ClickSuggestion(index)
  \/ \E t \in debounceTimers : DebounceElapsed(t)
  \/ \E r \in DOMAIN requests : LatencyElapsed(r)
  \/ \E r \in DOMAIN requests : AbortCatch(r)
  \/ ClearAll

Spec == Init /\ [][Next]_vars

(***************************************************************************)
(* The same program against a suggestion backend that can fail: the        *)
(* promise returned by fetchSchools rejects with an error that is not an   *)
(* AbortError.                                                             *)
(***************************************************************************)
\* the promise of an unaborted fetchSchools call rejects
FetchFails(r) ==
  /\ MicrotasksDone
  /\ r \in DOMAIN requests
  /\ requests[r].phase = "latency"
  /\ ~requests[r].aborted
  /\ requests' = [requests EXCEPT ![r].phase = "failed"]
  /\ UNCHANGED <<storeVars, debounceTimers, abortControllerRef, nextRequest, focused,
                 historyVars, ingestVars>>

\* the rejection reaches the catch of fetchSuggestions
FailureCatch(r) ==
  /\ r \in DOMAIN requests
  /\ requests[r].phase = "failed"
  /\ autocomplete' = FetchCatch(autocomplete, FALSE)
  /\ suggestionsFrom' = None
  /\ requests' = [q \in (DOMAIN requests) \ {r} |-> requests[q]]
  /\ discarded' = StillPending(discarded, debounceTimers, requests')
  /\ UNCHANGED <<tableVars, rowVars, debounceTimers, abortControllerRef, nextRequest, focused>>

NextUnreliable ==
  \/ Next
  \/ \E r \in DOMAIN requests : FetchFails(r)
  \/ \E r \in DOMAIN requests : FailureCatch(r)

SpecUnreliable == Init /\ [][NextUnreliable]_vars

(***************************************************************************)
(* ExcelUploader and ExcelDataTable: ingest, edit, selection, deletion,    *)
(* duplicate removal and pagination over the store.                        *)
(***************************************************************************)
MaxIngests == 2

\* the page sizes offered by the page-size select
PageSizes == {5, 10}

RECURSIVE RemoveDuplicatesFrom(_, _, _, _)
RemoveDuplicatesFrom(rows, uniqueKey, i, seen) ==
  IF i > Len(rows) THEN <<>>
  ELSE IF ~HasKey(rows[i], uniqueKey)
       THEN <<rows[i]>> \o RemoveDuplicatesFrom(rows, uniqueKey, i + 1, seen)
       ELSE IF Get(rows[i], uniqueKey) \in seen
            THEN RemoveDuplicatesFrom(rows, uniqueKey, i + 1, seen)
            ELSE <<rows[i]>> \o RemoveDuplicatesFrom(rows, uniqueKey, i + 1,
                                   seen \cup {Get(rows[i], uniqueKey)})

\* a filter that keeps the last occurrence of every key
RemoveDuplicatesKeepingLast(rows, uniqueKey) ==
  LET Kept(i) == \/ ~HasKey(rows[i], uniqueKey)
                 \/ \A j \in (i + 1)..Len(rows) :
                      Get(rows[j], uniqueKey) # Get(rows[i], uniqueKey)
      kept == Ascending({i \in 1..Len(rows) : Kept(i)})
  IN  [r \in 1..Len(kept) |-> rows[kept[r]]]

\* a filter that drops only the first repeat it meets
RemoveDuplicatesOnePerPass(rows, uniqueKey) ==
  LET Repeat(i) == /\ HasKey(rows[i], uniqueKey)
                   /\ \E j \in 1..(i - 1) :
                        Get(rows[j], uniqueKey) = Get(rows[i], uniqueKey)
      repeats == {i \in 1..Len(rows) : Repeat(i)}
      first == IF repeats = {} THEN 0 ELSE CHOOSE i \in repeats : \A j \in repeats : i <= j
      kept == Ascending({i \in 1..Len(rows) : i # first})
  IN  [r \in 1..Len(kept) |-> rows[kept[r]]]

\* removeDuplicates: keeps the first occurrence of every key
RemoveDuplicates(rows, uniqueKey) == RemoveDuplicatesFrom(rows, uniqueKey, 1, {})

\* a filter with the test inverted
DeleteSelectedRowsInverted(rows, selected) ==
  LET Remains(row) == row.id \in selected
  IN  SelectSeq(rows, Remains)

\* the data deleteSelectedRows leaves
DeleteSelectedRows(rows, selected) ==
  LET Remains(row) == row.id \notin selected
  IN  SelectSeq(rows, Remains)

\* toggleRowSelection
ToggleRowSelection(selected, rowId) ==
  IF rowId \in selected THEN selected \ {rowId} ELSE selected \cup {rowId}

\* selectAllRows
SelectAllRows(selected, rowIds) == selected \cup rowIds

\* an openDeleteDialog without the size test
OpenDeleteDialogUnconditional(selected, isOpen) == TRUE

\* openDeleteDialog
OpenDeleteDialog(selected, isOpen) == IF Cardinality(selected) > 0 THEN TRUE ELSE isOpen

\* the files a user drops; a file that XLSX.read cannot parse has no sheet
Staff == <<"staff.xlsx">>
Duo == <<"duo.xlsx">>
Broken == <<"broken.xlsx">>

Parses(file) == file # Broken

\* XLSX.utils.sheet_to_json of the first sheet
SheetToJson(file) ==
  IF file = Staff
  THEN << [email |-> <<"a", "@", "b", ".", "c", "o">>, name |-> <<"A", "l">>],
          [email |-> <<"c", "@", "d", ".", "i", "o">>, name |-> <<"B", "o">>],
          [email |-> <<"a", "@", "b", ".", "c", "o">>, name |-> <<"C", "y">>],
          [email |-> <<>>, name |-> <<"D", "i">>],
          [email |-> <<"c", "@", "d", ".", "i", "o">>, name |-> <<"E">>],
          [email |-> <<"e", "@", "f", ".", "o", "r", "g">>, name |-> <<"F", "l", "o">>] >>
  ELSE << [email |-> <<"a", "@", "b", ".", "c", "o">>, name |-> <<"A", "l">>],
          [email |-> <<"a", "@", "b", ".", "c", "o">>, name |-> <<"B">>] >>

\* an ingest that gives every row of a file the same identifier
DataWithOneId(jsonData, n) ==
  [i \in 1..Len(jsonData) |-> WithField(jsonData[i], "id", <<n, 1>>)]

\* jsonData.map(row => ({ ...row, id: uuidv4() })): the identifiers of the n-th
\* ingest are fresh
DataWithIds(jsonData, n) ==
  [i \in 1..Len(jsonData) |-> WithField(jsonData[i], "id", <<n, i>>)]

\* Object.keys(jsonData[0]).filter(col => col !== "id")
ExtractedColumns(jsonData) ==
  IF Len(jsonData) > 0 THEN <<"email", "name">> ELSE <<>>

\* the error stored by the catch block of processExcelFile
FileError ==
  [row |-> -1, column |-> "file",
   message |-> "Failed to parse file. Check the format.", value |-> None]

\* what a user types into a plain input of the column
EditValues(column) ==
  IF column = "email"
  THEN {<<"c", "@", "d", ".", "i", "o">>, <<"c", "@", "d">>}
  ELSE {<<"Z", "o">>, <<"Z">>}

\* a disabled flag that looks at the errors only
IsCompleteDisabledIgnoringDuplicates ==
  Len(cellErrors) > 0 \/ Len(data) = 0

\* isCompleteDisabled of ExcelUploader
IsCompleteDisabled ==
  Len(cellErrors) > 0 \/ Len(duplicates) > 0 \/ Len(data) = 0

\* a convertToJson that returns the rows as they are
ConvertToJsonKeepingId(rows) == rows

\* convertToJson: data.map(({ id, ...rest }) => rest)
ConvertToJson(rows) ==
  [i \in 1..Len(rows) |-> [f \in (DOMAIN rows[i]) \ {"id"} |-> rows[i][f]]]

\* the table and the buttons below it are rendered, and no modal dialog is open
TableShown == Len(data) > 0 /\ ~isDeleteDialogOpen

\* currentPageRowIds
CurrentPageRowIds == {data[i].id : i \in PagePositions}

\* allCurrentPageSelected
AllCurrentPageSelected ==
  CurrentPageRowIds # {} /\ CurrentPageRowIds \subseteq selectedRowIds

autocompleteVars == <<autocomplete, cellVars, historyVars>>

InitTable ==
  /\ data = <<>>
  /\ columns = <<>>
  /\ cellErrors = <<>>
  /\ duplicates = <<>>
  /\ isProcessing = FALSE
  /\ fileName = None
  /\ currentPage = 1
  /\ pageSize = InitialPageSize
  /\ selectedRowIds = {}
  /\ isDeleteDialogOpen = FALSE
  /\ autocomplete = initialAutocompleteState
  /\ debounceTimers = {}
  /\ abortControllerRef = [k \in AllCellKeys |-> 0]
  /\ requests = <<>>
  /\ nextRequest = 0
  /\ focused = None
  /\ suggestionsFrom = None
  /\ discarded = NothingDiscarded
  /\ pendingReads = {}
  /\ ingests = 0
  /\ payload = <<>>

\* onDrop: processExcelFile up to its await
OnDrop(file) ==
  /\ ~isProcessing
  /\ ~isDeleteDialogOpen
  /\ ingests < MaxIngests
  /\ isProcessing' = TRUE
  /\ fileName' = file
  /\ ingests' = ingests + 1
  /\ pendingReads' = pendingReads \cup {[n |-> ingests + 1, file |-> file]}
  /\ UNCHANGED <<data, columns, cellErrors, duplicates, currentPage, pageSize,
                 selectedRowIds, isDeleteDialogOpen, payload, autocompleteVars>>

\* a catch block that adds the file-level error to the stored errors
ReadCompletesAppending(read) ==
  /\ read \in pendingReads
  /\ pendingReads' = pendingReads \ {read}
  /\ IF Parses(read.file)
     THEN LET dataWithIds == DataWithIds(SheetToJson(read.file), read.n)
              extractedColumns == ExtractedColumns(SheetToJson(read.file))
          IN  /\ columns' = extractedColumns
              /\ data' = dataWithIds
              /\ cellErrors' = ValidateAllCells(dataWithIds, extractedColumns)
              /\ duplicates' = FindDuplicates(dataWithIds, "email")
     ELSE /\ cellErrors' = Append(cellErrors, FileError)
          /\ UNCHANGED <<columns, data, duplicates>>
  /\ isProcessing' = FALSE
  /\ UNCHANGED <<fileName, currentPage, pageSize, selectedRowIds, isDeleteDialogOpen,
                 ingests, payload, autocompleteVars>>

\* processExcelFile after its await: the try block, or the catch block when
\* the file cannot be parsed, then finally
ReadCompletes(read) ==
  /\ read \in pendingReads
  /\ pendingReads' = pendingReads \ {read}
  /\ IF Parses(read.file)
     THEN LET dataWithIds == DataWithIds(SheetToJson(read.file), read.n)
              extractedColumns == ExtractedColumns(SheetToJson(read.file))
          IN  /\ columns' = extractedColumns
              /\ data' = dataWithIds
              /\ cellErrors' = ValidateAllCells(dataWithIds, extractedColumns)
              /\ duplicates' = FindDuplicates(dataWithIds, "email")
     ELSE /\ cellErrors' = <<FileError>>
          /\ UNCHANGED <<columns, data, duplicates>>
  /\ isProcessing' = FALSE
  /\ UNCHANGED <<fileName, currentPage, pageSize, selectedRowIds, isDeleteDialogOpen,
                 ingests, payload, autocompleteVars>>

\* getCellError: the error the map built from cellErrors holds under the key
\* of position rowIndex, taken as a position of the whole row sequence
GetCellErrorByPageIndex(rowIndex, column) ==
  LET hits == {e \in 1..Len(cellErrors) :
                 cellErrors[e].row = rowIndex /\ cellErrors[e].column = column}
  IN  IF hits = {} THEN <<>>
      ELSE <<cellErrors[CHOOSE e \in hits : \A f \in hits : f <= e]>>

\* getCellError(rowIndex, column) for the rowIndex-th row of the page (0-based),
\* as a sequence of zero or one CellError: errorMap.get of the key
\* `${startIndex + rowIndex}-${column}`; of two errors with one key the map
\* keeps the later
GetCellError(rowIndex, column) ==
  LET hits == {e \in 1..Len(cellErrors) :
                 cellErrors[e].row = StartIndex + rowIndex /\ cellErrors[e].column = column}
  IN  IF hits = {} THEN <<>>
      ELSE <<cellErrors[CHOOSE e \in hits : \A f \in hits : f <= e]>>

\* isDuplicateRow(rowIndex): duplicates.includes(startIndex + rowIndex)
IsDuplicateRow(rowIndex) ==
  \E d \in 1..Len(duplicates) : duplicates[d] = StartIndex + rowIndex

\* onChange of the plain input of the rowIndex-th row of the page (0-based):
\* onCellUpdate(actualRowIndex, column, value) with
\* actualRowIndex = startIndex + rowIndex
EditCell(rowIndex, column, value) ==
  /\ TableShown
  /\ rowIndex \in 0..(EndIndex - StartIndex - 1)
  /\ \E c \in 1..Len(columns) : columns[c] = column
  /\ value \in EditValues(column)
  /\ Get(data[StartIndex + rowIndex + 1], column) # value
  /\ HandleCellUpdate(StartIndex + rowIndex, column, value)
  /\ UNCHANGED <<tableVars, autocompleteVars>>

\* the Remove Duplicates button of the duplicates alert
HandleRemoveDuplicates ==
  /\ ~isDeleteDialogOpen
  /\ Len(duplicates) > 0
  /\ LET cleanedData == RemoveDuplicates(data, "email")
     IN  /\ data' = cleanedData
         /\ duplicates' = <<>>
         /\ cellErrors' = ValidateAllCells(cleanedData, columns)
  /\ UNCHANGED <<tableVars, autocompleteVars>>

\* the Complete button: handleComplete computes and logs the payload
HandleComplete ==
  /\ TableShown
  /\ ~IsCompleteDisabled
  /\ payload' = ConvertToJson(data)
  /\ UNCHANGED <<storeVars, pendingReads, ingests, autocompleteVars>>

selectionFrame == <<data, columns, cellErrors, duplicates, isProcessing, fileName,
                    currentPage, pageSize, ingestVars, autocompleteVars>>

\* the checkbox of a visible row
ToggleRow(rowId) ==
  /\ TableShown
  /\ rowId \in CurrentPageRowIds
  /\ selectedRowIds' = ToggleRowSelection(selectedRowIds, rowId)
  /\ UNCHANGED <<selectionFrame, isDeleteDialogOpen>>

\* the header checkbox
HandleSelectAllCurrentPage ==
  /\ TableShown
  /\ selectedRowIds' = IF AllCurrentPageSelected THEN {}
                       ELSE SelectAllRows(selectedRowIds, CurrentPageRowIds)
  /\ UNCHANGED <<selectionFrame, isDeleteDialogOpen>>

\* the Deselect All button of the bulk-action bar
DeselectAllRows ==
  /\ TableShown
  /\ Cardinality(selectedRowIds) > 0
  /\ selectedRowIds' = {}
  /\ UNCHANGED <<selectionFrame, isDeleteDialogOpen>>

\* the Delete Selected button of the bulk-action bar
ClickDeleteSelected ==
  /\ TableShown
  /\ Cardinality(selectedRowIds) > 0
  /\ isDeleteDialogOpen' = OpenDeleteDialog(selectedRowIds, isDeleteDialogOpen)
  /\ UNCHANGED <<selectionFrame, selectedRowIds>>

\* Cancel in the dialog
CloseDeleteDialog ==
  /\ isDeleteDialogOpen
  /\ isDeleteDialogOpen' = FALSE
  /\ UNCHANGED <<selectionFrame, selectedRowIds>>

\* the page handleConfirmDelete leaves, computed from the rendered data and
\* selection count
PageAfterDelete(rows, selected, page, size) ==
  LET remaining == Len(rows) - Cardinality(selected)
      newTotalPages == Ceil(remaining, size)
  IN  IF page > newTotalPages /\ newTotalPages > 0 THEN newTotalPages ELSE page

\* Delete in the dialog: handleConfirm = handleConfirmDelete (deleteSelectedRows,
\* revalidateData, page adjustment) then closeDeleteDialog
HandleConfirmDelete ==
  /\ isDeleteDialogOpen
  /\ LET remainingData == DeleteSelectedRows(data, selectedRowIds)
     IN  /\ data' = remainingData
         /\ cellErrors' = ValidateAllCells(remainingData, columns)
         /\ duplicates' = FindDuplicates(remainingData, "email")
  /\ selectedRowIds' = {}
  /\ isDeleteDialogOpen' = FALSE
  /\ currentPage' = PageAfterDelete(data, selectedRowIds, currentPage, pageSize)
  /\ UNCHANGED <<columns, isProcessing, fileName, pageSize, ingestVars, autocompleteVars>>

pageFrame == <<data, columns, cellErrors, duplicates, isProcessing, fileName,
               selectedRowIds, isDeleteDialogOpen, ingestVars, autocompleteVars>>

GoToFirstPage ==
  /\ TableShown
  /\ currentPage # 1
  /\ currentPage' = 1
  /\ UNCHANGED <<pageFrame, pageSize>>

GoToPreviousPage ==
  /\ TableShown
  /\ currentPage # 1
  /\ currentPage' = Max(1, currentPage - 1)
  /\ UNCHANGED <<pageFrame, pageSize>>

GoToNextPage ==
  /\ TableShown
  /\ currentPage < TotalPages
  /\ currentPage' = Min(TotalPages, currentPage + 1)
  /\ UNCHANGED <<pageFrame, pageSize>>

GoToLastPage ==
  /\ TableShown
  /\ currentPage < TotalPages
  /\ currentPage' = TotalPages
  /\ UNCHANGED <<pageFrame, pageSize>>

\* a setPageSize that also drops the selection
SetPageSizeDeselecting(size) ==
  /\ TableShown
  /\ size \in PageSizes
  /\ size # pageSize
  /\ pageSize' = size
  /\ currentPage' = 1
  /\ selectedRowIds' = {}
  /\ UNCHANGED <<data, columns, cellErrors, duplicates, isProcessing, fileName,
                 isDeleteDialogOpen, ingestVars, autocompleteVars>>

\* a setPageSize that leaves the current page where it is
SetPageSizeKeepingPage(size) ==
  /\ TableShown
  /\ size \in PageSizes
  /\ size # pageSize
  /\ pageSize' = size
  /\ UNCHANGED <<pageFrame, currentPage>>

\* the page-size select: setPageSize
SetPageSize(size) ==
  /\ TableShown
  /\ size \in PageSizes
  /\ size # pageSize
  /\ pageSize' = size
  /\ currentPage' = 1
  /\ UNCHANGED pageFrame

\* a two-row file and every operation of the editor; the rows fit on one page
NextTable ==
  \/ \E file \in {Duo, Broken} : OnDrop(file)
  \/ \E read \in pendingReads : ReadCompletes(read)
  \/ \E rowIndex \in 0..(Len(data) - 1), column \in {"email", "name"} :
       \E value \in EditValues(column) : EditCell(rowIndex, column, value)
  \/ HandleRemoveDuplicates
  \/ \E rowId \in CurrentPageRowIds : ToggleRow(rowId)
  \/ HandleSelectAllCurrentPage
  \/ DeselectAllRows
  \/ ClickDeleteSelected
  \/ CloseDeleteDialog
  \/ HandleConfirmDelete
  \/ \E size \in PageSizes : SetPageSize(size)
  \/ ClearAll

SpecTable == InitTable /\ [][NextTable]_vars

\* a six-row file, which fills two pages of the smallest page size, and every
\* operation of the editor except typing into cells
NextPages ==
  \/ \E file \in {Staff, Broken} : OnDrop(file)
  \/ \E read \in pendingReads : ReadCompletes(read)
  \/ HandleRemoveDuplicates
  \/ \E rowId \in CurrentPageRowIds : ToggleRow(rowId)
  \/ HandleSelectAllCurrentPage
  \/ DeselectAllRows
  \/ ClickDeleteSelected
  \/ CloseDeleteDialog
  \/ HandleConfirmDelete
  \/ GoToFirstPage
  \/ GoToPreviousPage
  \/ GoToNextPage
  \/ GoToLastPage
  \/ \E size \in PageSizes : SetPageSize(size)
  \/ ClearAll

SpecPages == InitTable /\ [][NextPages]_vars

\* the six-row file, typing into the email cells of the page shown, page
\* navigation, duplicate removal and submission
NextEdits ==
  \/ OnDrop(Staff)
  \/ \E read \in pendingReads : ReadCompletes(read)
  \/ \E rowIndex \in 0..(Len(data) - 1) :
       \E value \in EditValues("email") : EditCell(rowIndex, "email", value)
  \/ HandleRemoveDuplicates
  \/ GoToFirstPage
  \/ GoToPreviousPage
  \/ GoToNextPage
  \/ GoToLastPage
  \/ \E size \in PageSizes : SetPageSize(size)
  \/ HandleComplete

SpecEdits == InitTable /\ [][NextEdits]_vars

(***************************************************************************)
(* The table of the autocomplete specification with its rows selected and  *)
(* deleted: the AutocompleteCell of a deleted row is unmounted and its     *)
(* cleanup effect runs.  The checkbox and the Delete Selected button are   *)
(* reached after focus has left the cells.                                 *)
(***************************************************************************)
\* Delete in the dialog, in a table with autocomplete cells: handleConfirmDelete
\* and closeDeleteDialog, then the cleanup effect of the cells of deleted rows
HandleConfirmDeleteUnmounting ==
  /\ MicrotasksDone
  /\ isDeleteDialogOpen
  /\ LET remainingData == DeleteSelectedRows(data, selectedRowIds)
     IN  /\ data' = remainingData
         /\ cellErrors' = ValidateAllCells(remainingData, columns)
         /\ duplicates' = FindDuplicates(remainingData, "email")
  /\ selectedRowIds' = {}
  /\ isDeleteDialogOpen' = FALSE
  /\ currentPage' = PageAfterDelete(data, selectedRowIds, currentPage, pageSize)
  /\ Cleanup({k \in MountedCells : k[1] \in selectedRowIds})
  /\ UNCHANGED <<columns, isProcessing, fileName, pageSize, ingestVars, autocomplete,
                 nextRequest, suggestionsFrom>>

NextUnmount ==
  \/ Next
  \/ \E rowId \in CurrentPageRowIds : MicrotasksDone /\ focused = None /\ ToggleRow(rowId)
  \/ MicrotasksDone /\ focused = None /\ ClickDeleteSelected
  \/ MicrotasksDone /\ CloseDeleteDialog
  \/ HandleConfirmDeleteUnmounting

SpecUnmount == Init /\ [][NextUnmount]_vars

(***************************************************************************)
(* The exported functions of excel_validations and the dialog gate of the  *)
(* store, called directly on row sets drawn from bounded sets of inputs.   *)
(***************************************************************************)
MaxKeyRows == 4

\* a row set and the column list it is validated with: up to MaxKeyRows rows
\* that differ in their email key only (a name, the empty string, null or no
\* key at all), the five rows with keys A, B, A, A, C, or one row with an age, a
\* department, a column the schema has no rule for and a column named like an
\* inherited property
InputRows ==
  LET KeyValues == {<<"A">>, <<"B">>, <<>>, None, Undefined}
      ExampleKeys == <<(<<"A">>), (<<"B">>), (<<"A">>), (<<"A">>), (<<"C">>)>>
      AgeValues ==
        { <<"-", "1">>, <<"0">>, <<"4", "2">>, <<"1", "5", "0">>, <<"1", "5", "1">>,
          <<"4", ".", "5">>, <<"7", ".", "0">>, <<"x">>, <<>>, <<" ">>, None, Undefined }
      DepartmentValues ==
        Departments \cup { <<"e", "n", "g", "i", "n", "e", "e", "r", "i", "n", "g">>,
                           <<"h", "r">>, <<"L", "e", "g", "a", "l">>, <<>>, None, Undefined }
      KeyRow(i, k) == IF k = Undefined THEN [id |-> <<0, i>>]
                      ELSE [id |-> <<0, i>>, email |-> k]
      KeyRows(keys) == [i \in 1..Len(keys) |-> KeyRow(i, keys[i])]
      keySets == UNION {[1..n -> KeyValues] : n \in 0..MaxKeyRows} \cup {ExampleKeys}
      FieldRow(a, d) ==
        LET base == [id |-> <<0, 1>>, notes |-> <<"n", "/", "a">>,
                     constructor |-> <<"A", "c", "m", "e">>]
            aged == IF a = Undefined THEN base ELSE WithField(base, "age", a)
        IN  IF d = Undefined THEN aged ELSE WithField(aged, "department", d)
  IN  {[data |-> KeyRows(keys), columns |-> <<"id", "email">>] : keys \in keySets}
        \cup {[data |-> <<FieldRow(a, d)>>,
                columns |-> <<"id", "age", "department", "notes", "constructor">>] :
                a \in AgeValues, d \in DepartmentValues}

InitContract ==
  /\ \E input \in InputRows :
       /\ data = input.data
       /\ columns = input.columns
       /\ selectedRowIds \in {{}, {input.data[i].id : i \in 1..Min(1, Len(input.data))}}
  /\ cellErrors = <<>>
  /\ duplicates = <<>>
  /\ isProcessing = FALSE
  /\ fileName = None
  /\ currentPage = 1
  /\ pageSize = InitialPageSize
  /\ isDeleteDialogOpen = FALSE
  /\ autocomplete = initialAutocompleteState
  /\ debounceTimers = {}
  /\ abortControllerRef = [k \in AllCellKeys |-> 0]
  /\ requests = <<>>
  /\ nextRequest = 0
  /\ focused = None
  /\ suggestionsFrom = None
  /\ discarded = NothingDiscarded
  /\ pendingReads = {}
  /\ ingests = 0
  /\ payload = <<>>

\* setDuplicates(findDuplicates(data, "email"))
CallFindDuplicates ==
  /\ duplicates' = FindDuplicates(data, "email")
  /\ UNCHANGED <<data, cellErrors, tableVars, autocompleteVars>>

\* setData(removeDuplicates(data, "email"))
CallRemoveDuplicates ==
  /\ data' = RemoveDuplicates(data, "email")
  /\ UNCHANGED <<cellErrors, duplicates, tableVars, autocompleteVars>>

\* setCellErrors(validateAllCells(data, columns))
CallValidateAllCells ==
  /\ cellErrors' = ValidateAllCells(data, columns)
  /\ UNCHANGED <<data, duplicates, tableVars, autocompleteVars>>

\* useExcelUploadStore.getState().openDeleteDialog()
CallOpenDeleteDialog ==
  /\ isDeleteDialogOpen' = OpenDeleteDialog(selectedRowIds, isDeleteDialogOpen)
  /\ UNCHANGED <<selectionFrame, selectedRowIds>>

\* setAutocompleteQuery(query), then setAutocompleteSuggestions(await
\* fetchSchools(query)) with no abort signal.  fetchSchools reads nothing of the
\* store; it is called here on the store without rows.  The queries: one
\* letter, one letter between spaces, upper case with a trailing space, the
\* query with the most matches, and one without a match.
CallFetchSchools(query) ==
  /\ Len(data) = 0
  /\ autocomplete' = SetAutocompleteSuggestions(SetAutocompleteQuery(autocomplete, query),
                                                FetchSchoolsResult(query))
  /\ UNCHANGED <<data, columns, cellErrors, duplicates, isProcessing, fileName, currentPage,
                 pageSize, selectedRowIds, isDeleteDialogOpen, cellVars, historyVars,
                 ingestVars>>

NextContract ==
  \/ \E query \in {<<"a">>, <<" ", "a", " ">>, <<"O", "A", "K", " ">>, <<"e", "m">>,
                   <<"z", "z">>} :
       CallFetchSchools(query)
  \/ CallFindDuplicates
  \/ CallRemoveDuplicates
  \/ CallValidateAllCells
  \/ CallOpenDeleteDialog
  \/ CloseDeleteDialog

SpecContract == InitContract /\ [][NextContract]_vars

(***************************************************************************)
(* Properties of the autocomplete coordinator.                             *)
(***************************************************************************)
\* the requests of cell k that are in flight: issued, not completed, not aborted
InFlight(k) ==
  {r \in DOMAIN requests :
     requests[r].cell = k /\ requests[r].phase = "latency" /\ ~requests[r].aborted}

\* the pending debounce timers of cell k
TimersOf(k) == {t \in debounceTimers : t.cell = k}

\* request r is settled by this step
Settles(r) == r \in DOMAIN requests /\ r \notin DOMAIN requests'

\* C1: within one cell, only the most recently issued request is ever applied.
\* A request that completes without having been aborted is the one the cell's
\* abortControllerRef holds (the last one fetchSuggestions issued for that cell),
\* and a non-empty suggestion list only ever enters the store as the result of
\* such a request.
C1_OnlyLatestRequestApplied ==
  [][ /\ \A r \in DOMAIN requests :
           (Settles(r) /\ ~requests[r].aborted)
             => abortControllerRef[requests[r].cell] = r
      /\ (autocomplete'.suggestions # autocomplete.suggestions
            /\ autocomplete'.suggestions # <<>>)
           => \E r \in DOMAIN requests :
                /\ Settles(r)
                /\ ~requests[r].aborted
                /\ abortControllerRef[requests[r].cell] = r
                /\ autocomplete'.suggestions = FetchSchoolsResult(requests[r].query)
    ]_vars

\* C1 witness: a cell's earlier request has been aborted by fetchSuggestions
\* while the later request of the same cell is in flight.
C1_Witness ==
  \E r1 \in DOMAIN requests, r2 \in DOMAIN requests :
    /\ r1 < r2
    /\ requests[r1].cell = requests[r2].cell
    /\ requests[r1].aborted
    /\ r2 \in InFlight(requests[r2].cell)

\* C2: a cancelled request never mutates the store.  Every step taken by a
\* request whose controller has been aborted leaves the whole autocomplete
\* state unchanged.
C2_CancelledRequestNeverMutates ==
  [][ \A r \in DOMAIN requests :
        (requests[r].aborted /\ (Settles(r) \/ requests'[r] # requests[r]))
          => autocomplete' = autocomplete
    ]_vars

\* C2 witness: a request aborted by the cleanup of its unmounted cell is about
\* to reach its catch block while the store has been cleared.
C2_Witness ==
  /\ Len(data) = 0
  /\ \E r \in DOMAIN requests : requests[r].aborted /\ requests[r].phase = "rejected"

C4_Debounce ==
  /\ [](\A k \in AllCellKeys : Cardinality(TimersOf(k)) <= 1)
  /\ [][ \A k \in AllCellKeys :
           /\ (TimersOf(k)' # TimersOf(k) /\ TimersOf(k)' # {})
                => /\ \E t \in TimersOf(k)' :
                        /\ TimersOf(k)' = {t}
                        /\ autocomplete'.searchQuery = t.value
                        /\ ValueOf(k)' = t.value
                   /\ nextRequest' = nextRequest
           /\ (TimersOf(k) # {} /\ TimersOf(k)' = {} /\ data' = data)
                => \A t \in TimersOf(k) :
                     IF Issues(t.value)
                     THEN /\ nextRequest' = nextRequest + 1
                          /\ requests'[nextRequest'].query = t.value
                          /\ requests'[nextRequest'].cell = k
                     ELSE nextRequest' = nextRequest
       ]_vars

\* C4 witness: a request issued after one quiet period is in flight while the
\* timer of a later keystroke in the same cell is pending.
C4_Witness ==
  \E t \in debounceTimers, r \in DOMAIN requests :
    /\ requests[r].cell = t.cell
    /\ requests[r].query \in TypedValues
    /\ r \in InFlight(t.cell)
    /\ autocomplete.searchQuery = t.value
    /\ ValueOf(t.cell) = t.value

\* C5: sessions never overlap.  While a cell is active, the suggestions held in
\* the store were produced by a request of that same cell.
C5_SuggestionsBelongToActiveCell ==
  (autocomplete.activeCellKey # None /\ autocomplete.suggestions # <<>>)
    => suggestionsFrom = autocomplete.activeCellKey

\* C6: a step that makes a different cell key active leaves the suggestions
\* empty and nothing highlighted.
C6_ActivationClearsSuggestions ==
  [][ (autocomplete'.activeCellKey # None
         /\ autocomplete'.activeCellKey # autocomplete.activeCellKey)
        => (autocomplete'.suggestions = <<>> /\ autocomplete'.highlightedIndex = -1)
    ]_vars

\* C7: once Escape, Tab or a click outside has reset the session, no debounce
\* timer and no request that was pending at the reset changes the autocomplete
\* state afterwards.
C7_NothingSurvivesReset ==
  [][ ( /\ autocomplete.activeCellKey = None
        /\ \/ \E r \in discarded.requests : Settles(r)
           \/ \E t \in discarded.timers :
                t \in debounceTimers /\ t \notin debounceTimers' /\ data' = data )
        => autocomplete' = autocomplete
    ]_vars

\* the autocomplete state a mousedown on target leaves, before focus moves
ClickOutsideAutocomplete(target) ==
  IF ClickOutsideResets(target) THEN ResetAutocomplete ELSE autocomplete

\* C8: in every active state, the suggestion list empty or not, Escape and Tab
\* in the active input and a click outside both the input and the dropdown
\* return the session to Idle and leave the cell value as it is.
C8_EscapeTabClickOutsideReset ==
  \A k \in MountedCells :
    autocomplete.activeCellKey = k
      => /\ focused = k
              => \A key \in {"Escape", "Tab"} :
                   /\ KeyDownAutocomplete(k, key) = initialAutocompleteState
                   /\ KeyDownData(k, key) = data
         /\ ClickOutsideAutocomplete(Elsewhere) = initialAutocompleteState

\* C9: highlightedIndex is always -1 or a valid index into suggestions.
C9_HighlightedIndexInRange ==
  /\ autocomplete.highlightedIndex >= -1
  /\ autocomplete.highlightedIndex <= Len(autocomplete.suggestions) - 1

\* C10: in the active input, Enter with highlightedIndex >= 0 writes the name of
\* suggestions[highlightedIndex] into the cell and resets the session to Idle;
\* Enter with highlightedIndex = -1 changes neither the cell value nor the
\* session.
C10_EnterCommitsHighlighted ==
  \A k \in MountedCells :
    (focused = k /\ autocomplete.activeCellKey = k
       /\ Len(autocomplete.suggestions) > 0)
      => IF autocomplete.highlightedIndex >= 0
         THEN /\ autocomplete.highlightedIndex < Len(autocomplete.suggestions)
              /\ ValueOf(k) # SchoolName(autocomplete.suggestions[autocomplete.highlightedIndex + 1])
                   => KeyDownData(k, "Enter") # data
              /\ Get(KeyDownData(k, "Enter")[RowIndexOf(k) + 1], k[2])
                   = SchoolName(autocomplete.suggestions[autocomplete.highlightedIndex + 1])
              /\ KeyDownAutocomplete(k, "Enter") = initialAutocompleteState
         ELSE /\ KeyDownData(k, "Enter") = data
              /\ KeyDownAutocomplete(k, "Enter") = autocomplete

\* C11: when the debounce window elapses with a query shorter than the minimum
\* length, fetchSuggestions issues no request, cancels the cell's pending one,
\* and clears the suggestion list and the loading flag.
C11_ShortQueryClearsWithoutRequest ==
  [][ \A t \in debounceTimers :
        (t \notin debounceTimers' /\ data' = data /\ Len(t.value) < minSearchLength)
          => /\ nextRequest' = nextRequest
             /\ DOMAIN requests' \subseteq DOMAIN requests
             /\ InFlight(t.cell)' = {}
             /\ autocomplete'.suggestions = <<>>
             /\ autocomplete'.isLoading = FALSE
    ]_vars

\* C11 witness: the timer of a one-character query has fired while the cell's
\* earlier request was in flight: that request is aborted, no timer is left,
\* the list is empty and nothing is loading.
C11_Witness ==
  \E r \in DOMAIN requests :
    /\ requests[r].aborted
    /\ requests[r].phase = "rejected"
    /\ autocomplete.activeCellKey = requests[r].cell
    /\ Len(ValueOf(requests[r].cell)) < minSearchLength
    /\ autocomplete.searchQuery = ValueOf(requests[r].cell)
    /\ debounceTimers = {}
    /\ nextRequest = 1
    /\ autocomplete.suggestions = <<>>
    /\ ~autocomplete.isLoading

\* C12: a request that fails for a reason other than cancellation ends with an
\* empty suggestion list and isLoading = false; a request that ends by
\* cancellation leaves the suggestion list exactly as it was.
C12_FailureClearsCancellationKeeps ==
  [][ \A r \in DOMAIN requests :
        Settles(r)
          => /\ requests[r].phase = "failed"
                  => /\ autocomplete'.suggestions = <<>>
                     /\ autocomplete'.isLoading = FALSE
             /\ requests[r].aborted
                  => autocomplete'.suggestions = autocomplete.suggestions
    ]_vars

\* C12 witness: a request has failed while the store holds a non-empty
\* suggestion list and the loading flag is set.
C12_Witness ==
  \E r \in DOMAIN requests :
    /\ requests[r].phase = "failed"
    /\ autocomplete.suggestions # <<>>
    /\ autocomplete.isLoading

(***************************************************************************)
(* Properties of the editor: validation state, submission, pagination,     *)
(* selection and deletion.                                                 *)
(***************************************************************************)
\* the identifiers of the rows held by the store
RowIdsOf(rows) == {rows[i].id : i \in 1..Len(rows)}

\* the stored error and duplicate sets are those of the stored rows
ValidationCurrent ==
  /\ cellErrors = ValidateAllCells(data, columns)
  /\ duplicates = FindDuplicates(data, "email")

\* C13: the stored error and duplicate sets are current.  In every reachable
\* state, other than one in which a failed parse has just stored its file-level
\* error, cellErrors equals validateAllCells(rows, columns) and duplicates equals
\* findDuplicates(rows, "email") on the rows the store holds; so they are after
\* every successful ingest, cell edit, duplicate removal and confirmed deletion.
C13_ValidationStateCurrent ==
  cellErrors # <<FileError>> => ValidationCurrent

\* C13 witness: a typed email has removed a duplicate and introduced a format
\* error, and both stored sets reflect it.
C13_Witness ==
  /\ Len(data) = 2
  /\ data[2].email = <<"c", "@", "d">>
  /\ duplicates = <<>>
  /\ \E e \in 1..Len(cellErrors) :
       /\ cellErrors[e].row = 1
       /\ cellErrors[e].column = "email"
       /\ cellErrors[e].message = "Invalid email format"

\* C14: submission is enabled only when the store holds at least one row, no
\* cell of any row fails its field rule and no two rows share a non-empty email.
C14_SubmitOnlyCleanData ==
  ~IsCompleteDisabled
    => /\ Len(data) >= 1
       /\ \A i \in 1..Len(data), c \in 1..Len(columns) :
            FieldIssue(columns[c], Get(data[i], columns[c])) = NoIssue
       /\ \A i \in 1..Len(data), j \in 1..Len(data) :
            (i < j /\ data[i].email = data[j].email) => data[i].email = <<>>

\* C14 witness: after edits, both rows of the file are valid and distinct and
\* submission is enabled.
C14_Witness ==
  /\ ~IsCompleteDisabled
  /\ Len(data) = 2
  /\ data[2].email = <<"c", "@", "d", ".", "i", "o">>
  /\ data[2].name = <<"Z", "o">>

\* C15: pagination stays in range: with at least one row,
\* 1 <= currentPage <= ceil(rowCount / pageSize).
C15_PageInRange ==
  Len(data) >= 1 => (1 <= currentPage /\ currentPage <= Ceil(Len(data), pageSize))

\* a processExcelFile call completes its try block in a store that holds rows
ReplacesDataset ==
  /\ Len(data) > 0
  /\ \E read \in pendingReads : read \notin pendingReads' /\ Parses(read.file)

\* C16: replacing the whole dataset is a full reset: afterwards the errors and
\* duplicates are those of the new rows, the selection is empty and the current
\* page is 1.
C16_ReplaceIsFullReset ==
  [][ ReplacesDataset
        => /\ cellErrors' = ValidateAllCells(data', columns')
           /\ duplicates' = FindDuplicates(data', "email")
           /\ selectedRowIds' = {}
           /\ currentPage' = 1
    ]_vars

\* the Delete button of the dialog is pressed: the only step that changes the
\* selection while the dialog is open
ConfirmsDelete == isDeleteDialogOpen /\ selectedRowIds' # selectedRowIds

\* C17: deleteSelectedRows removes exactly the rows whose identifier is
\* selected, keeps every other row unchanged and in order, empties the selection
\* and closes the dialog.
C17_DeleteRemovesExactlySelected ==
  [][ ConfirmsDelete
        => LET kept == {i \in 1..Len(data) : data[i].id \notin selectedRowIds}
           IN  /\ Len(data') = Cardinality(kept)
               /\ \A i \in kept : data'[Cardinality({j \in kept : j <= i})] = data[i]
               /\ selectedRowIds' = {}
               /\ isDeleteDialogOpen' = FALSE
    ]_vars

\* C17 witness: the second row of the file has been deleted from between the
\* first and the third.
C17_Witness ==
  /\ Len(data) >= 2
  /\ data[1].id = <<1, 1>>
  /\ data[2].id = <<1, 3>>
  /\ selectedRowIds = {}
  /\ ~isDeleteDialogOpen

\* a page or page-size change made from the pagination controls (not the page
\* adjustment of a deletion, not clearAll)
PaginationStep ==
  /\ currentPage' # currentPage \/ pageSize' # pageSize
  /\ ~isDeleteDialogOpen
  /\ ~(data # <<>> /\ data' = <<>>)

\* C18: selection is keyed by identifier and untouched by pagination: page and
\* page-size changes leave the selection and the rows unchanged, and a deletion
\* removes exactly the selected identifiers wherever their rows now are.
C18_SelectionSurvivesPagination ==
  [][ /\ PaginationStep => (selectedRowIds' = selectedRowIds /\ data' = data)
      /\ ConfirmsDelete => RowIdsOf(data') = RowIdsOf(data) \ selectedRowIds
    ]_vars

\* C18 witness: with the page size changed to 5, a selected row of the store is
\* not on the current page.
C18_Witness ==
  /\ pageSize = 5
  /\ \E id \in selectedRowIds : id \in RowIdsOf(data) /\ id \notin CurrentPageRowIds

\* a cell edit: same rows, same identifiers, some content changed
EditsCell ==
  /\ Len(data') = Len(data)
  /\ data' # data
  /\ \A i \in 1..Len(data) : data'[i].id = data[i].id

ClearsAll == ~isDeleteDialogOpen /\ data # <<>> /\ data' = <<>>

\* C20: clearAll returns every piece of store state to its initial value.
C20_ClearAllRestoresInitialState ==
  [][ ClearsAll
        => /\ columns' = <<>>
           /\ cellErrors' = <<>>
           /\ duplicates' = <<>>
           /\ currentPage' = 1
           /\ pageSize' = InitialPageSize
           /\ selectedRowIds' = {}
           /\ isDeleteDialogOpen' = FALSE
           /\ isProcessing' = FALSE
           /\ fileName' = None
           /\ autocomplete' = initialAutocompleteState
    ]_vars

\* C20 witness: clearAll has run while a second file was still being read: the
\* store is in its initial state and the read is pending.
C20_Witness ==
  /\ data = <<>>
  /\ fileName = None
  /\ ~isProcessing
  /\ pendingReads # {}
  /\ ingests = 2
  /\ pageSize = InitialPageSize
  /\ currentPage = 1

(***************************************************************************)
(* Properties of the store contract, the row identifiers, the duplicate    *)
(* detector and the field rules.                                           *)
(***************************************************************************)
\* C21: openDeleteDialog is a no-op when the selection is empty and opens the
\* dialog when at least one identifier is selected: a closed dialog opens only
\* in a step that starts with a non-empty selection and changes nothing else,
\* and with a non-empty selection the call does open it.
C21_OpenDeleteDialogGate ==
  /\ []((selectedRowIds # {} /\ ~isDeleteDialogOpen)
          => ENABLED (CallOpenDeleteDialog /\ isDeleteDialogOpen'))
  /\ [][ (~isDeleteDialogOpen /\ isDeleteDialogOpen')
           => (selectedRowIds # {} /\ UNCHANGED <<selectionFrame, selectedRowIds>>)
       ]_vars

\* C21 witness: the dialog is open over a non-empty selection.
C21_Witness ==
  /\ isDeleteDialogOpen
  /\ selectedRowIds = {<<0, 1>>}
  /\ Len(data) >= 1

\* C22: setPageSize sets currentPage to 1: after every page-size change the
\* current page is 1 and, when rows exist, within ceil(rowCount / pageSize).
C22_SetPageSizeResetsPage ==
  [][ pageSize' # pageSize
        => /\ currentPage' = 1
           /\ Len(data') >= 1 => currentPage' <= Ceil(Len(data'), pageSize')
    ]_vars

\* C22 witness: six rows are shown five to a page, on the first of two pages.
C22_Witness ==
  /\ pageSize = 5
  /\ currentPage = 1
  /\ Len(data) = 6
  /\ TotalPages = 2

\* C23: row identifiers are unique and stable: no two rows of the store share
\* an identifier, and in every step that ingests no file (a cell edit, a
\* duplicate removal, a deletion, clearAll) the identifiers of the rows that
\* remain are those they had, in the same order.
C23_RowIdsUniqueAndStable ==
  /\ [](\A i \in 1..Len(data), j \in 1..Len(data) : data[i].id = data[j].id => i = j)
  /\ [][ pendingReads' = pendingReads
           => LET Survives(id) == id \in RowIdsOf(data')
              IN  [i \in 1..Len(data') |-> data'[i].id]
                    = SelectSeq([i \in 1..Len(data) |-> data[i].id], Survives)
       ]_vars

\* C23 witness: the second row of the file is the only row left, after an edit
\* of its email and the deletion of the first row, and has its identifier.
C23_Witness ==
  /\ Len(data) = 1
  /\ data[1].id = <<1, 2>>
  /\ data[1].email = <<"c", "@", "d", ".", "i", "o">>
  /\ data[1].name = <<"B">>

\* C24: findDuplicates returns exactly the positions whose key is neither
\* undefined, null nor "" and equals the key of an earlier row; first
\* occurrences and rows without a key are not flagged.
C24_FindDuplicatesFlagsLaterRepeats ==
  LET Key(i) == Get(data[i], "email")
      Repeat(i) == /\ Key(i) \notin {Undefined, None, <<>>}
                   /\ \E j \in 1..(i - 1) : Key(j) = Key(i)
      found == FindDuplicates(data, "email")
  IN  /\ {found[x] : x \in 1..Len(found)} = {i - 1 : i \in {r \in 1..Len(data) : Repeat(r)}}
      /\ Len(found) = Cardinality({r \in 1..Len(data) : Repeat(r)})

\* C24 witness: on the rows with keys A, B, A, A, C the positions 2 and 3 have
\* been stored.
C24_Witness ==
  /\ Len(data) = 5
  /\ \A i \in {1, 3, 4} : Get(data[i], "email") = <<"A">>
  /\ Get(data[2], "email") = <<"B">>
  /\ Get(data[5], "email") = <<"C">>
  /\ duplicates = <<2, 3>>

\* C25: removeDuplicates returns the rows that are the first occurrence of
\* their key or have no key, in their original order and unchanged.
C25_RemoveDuplicatesKeepsFirstOccurrences ==
  LET Key(i) == Get(data[i], "email")
      Kept(i) == \/ Key(i) \in {Undefined, None, <<>>}
                 \/ \A j \in 1..(i - 1) : Key(j) # Key(i)
      kept == {i \in 1..Len(data) : Kept(i)}
      cleaned == RemoveDuplicates(data, "email")
  IN  /\ Len(cleaned) = Cardinality(kept)
      /\ \A i \in kept : cleaned[Cardinality({j \in kept : j <= i})] = data[i]

\* C25 witness: the rows with keys A, B, A, A, C have been reduced to the
\* first, second and fifth.
C25_Witness ==
  /\ Len(data) = 3
  /\ data[1] = [id |-> <<0, 1>>, email |-> <<"A">>]
  /\ data[2] = [id |-> <<0, 2>>, email |-> <<"B">>]
  /\ data[3] = [id |-> <<0, 5>>, email |-> <<"C">>]

\* C26: removeDuplicates is idempotent: applied to its own result it returns
\* that result.
C26_RemoveDuplicatesIdempotent ==
  RemoveDuplicates(RemoveDuplicates(data, "email"), "email") = RemoveDuplicates(data, "email")

\* C26 witness: a repeated key has been removed from rows that also hold two
\* empty keys, and both empty-keyed rows are still there.
C26_Witness ==
  /\ Len(data) = 3
  /\ data[1] = [id |-> <<0, 1>>, email |-> <<"A">>]
  /\ data[2] = [id |-> <<0, 3>>, email |-> <<>>]
  /\ data[3] = [id |-> <<0, 4>>, email |-> <<>>]

\* C27: after a cell edit (updateCell, then validateAllCells) the stored errors
\* hold none for the edited cell when its new value satisfies the field rule and
\* exactly one, with the message of the first failing rule, when it does not;
\* and the stored errors never hold two for the same row and column.
C27_EditedCellHasAtMostOneError ==
  /\ [](\A e \in 1..Len(cellErrors), f \in 1..Len(cellErrors) :
          (cellErrors[e].row = cellErrors[f].row /\ cellErrors[e].column = cellErrors[f].column)
            => e = f)
  /\ [][ EditsCell
           => \A i \in 1..Len(data), column \in {"email", "name"} :
                data'[i][column] # data[i][column]
                  => LET value == data'[i][column]
                         errs == {e \in 1..Len(cellErrors') :
                                    /\ cellErrors'[e].row = i - 1
                                    /\ cellErrors'[e].column = column}
                         expected ==
                           CASE value = <<"c", "@", "d">> -> "Invalid email format"
                             [] value = <<"Z">> -> "Name must be at least 2 characters"
                             [] OTHER -> NoIssue
                     IN  /\ expected = FieldIssue(column, value)
                         /\ IF expected = NoIssue THEN errs = {}
                            ELSE /\ Cardinality(errs) = 1
                                 /\ \A e \in errs : /\ cellErrors'[e].message = expected
                                                    /\ cellErrors'[e].value = value
       ]_vars

\* C27 witness: the name of the first row has been replaced by a one-letter
\* name and the store holds exactly one error for that cell.
C27_Witness ==
  /\ Len(data) = 2
  /\ data[1].name = <<"Z">>
  /\ Cardinality({e \in 1..Len(cellErrors) :
                    /\ cellErrors[e].row = 0
                    /\ cellErrors[e].column = "name"
                    /\ cellErrors[e].message = "Name must be at least 2 characters"}) = 1

\* C28: the age of a row is reported exactly when its value is not a number
\* (an empty cell included), is not an integer or lies outside [0, 150].
C28_AgeReportedIffNotIntegerInRange ==
  cellErrors = ValidateAllCells(data, columns)
    => \A i \in 1..Len(data) :
         (\E c \in 1..Len(columns) : columns[c] = "age")
           => LET value == Get(data[i], "age")
                  n == ToNumber(value)
                  empty == value \in {Undefined, None} \/ Trim(value) = <<>>
                  acceptable == /\ ~empty
                                /\ n.den # 0
                                /\ n.num % Max(n.den, 1) = 0
                                /\ 0 <= n.num
                                /\ n.num <= 150 * n.den
                  reported == \E e \in 1..Len(cellErrors) :
                                cellErrors[e].row = i - 1 /\ cellErrors[e].column = "age"
              IN  reported <=> ~acceptable

\* C29: a department that is not exactly one of the five allowed names (empty,
\* absent and differently-cased values included) yields one error whose message
\* names the allowed set; each of the five allowed names yields none.
C29_DepartmentEnum ==
  cellErrors = ValidateAllCells(data, columns)
    => \A i \in 1..Len(data) :
         (\E c \in 1..Len(columns) : columns[c] = "department")
           => LET value == Get(data[i], "department")
                  errs == {e \in 1..Len(cellErrors) :
                             /\ cellErrors[e].row = i - 1
                             /\ cellErrors[e].column = "department"}
              IN  IF value \in Departments THEN errs = {}
                  ELSE /\ Cardinality(errs) = 1
                       /\ \A e \in errs :
                            cellErrors[e].message =
                              "Invalid department.  Must be: Engineering, Marketing, Sales, HR, or Finance"

\* C29 witness: a lower-cased department name has been reported.
C29_Witness ==
  \E e \in 1..Len(cellErrors) :
    /\ cellErrors[e].column = "department"
    /\ cellErrors[e].value = <<"h", "r">>

\* C30: validateAllCells reports no error for a column without a rule in the
\* schema or for the id column: the column of every reported error is one of
\* the declared schema fields and is in the column list.
C30_OnlySchemaColumnsReported ==
  cellErrors = ValidateAllCells(data, columns)
    => \A e \in 1..Len(cellErrors) :
         /\ cellErrors[e].column \in
              {"email", "name", "phone", "age", "department", "joinDate", "school"}
         /\ \E c \in 1..Len(columns) : columns[c] = cellErrors[e].column

(***************************************************************************)
(* Properties of ingest, submission, lookup, selection and loading.        *)
(***************************************************************************)
\* C31: a failed parse is converted into exactly one file-level error (row -1,
\* column "file") that replaces the stored errors, and isProcessing is false
\* when a processExcelFile call ends, whether it parsed its file or not.
C31_ParseFailureIsOneFileError ==
  [][ \A read \in pendingReads :
        read \notin pendingReads'
          => /\ isProcessing' = FALSE
             /\ ~Parses(read.file)
                  => /\ Len(cellErrors') = 1
                     /\ cellErrors'[1].row = -1
                     /\ cellErrors'[1].column = "file"
    ]_vars

\* C31 witness: the parse of a second file has failed over two rows that had a
\* cell error of their own; the store holds the file-level error alone.
C31_Witness ==
  /\ Len(data) = 2
  /\ data[2].name = <<"B">>
  /\ cellErrors = <<FileError>>
  /\ ~isProcessing
  /\ pendingReads = {}

\* C32: the submitted payload is the current row sequence with the id field
\* removed from every record: same length and order, every other field of every
\* row unchanged.
C32_PayloadIsRowsWithoutId ==
  [][ payload' # payload
        => /\ Len(payload') = Len(data)
           /\ \A i \in 1..Len(data) :
                /\ DOMAIN payload'[i] = (DOMAIN data[i]) \ {"id"}
                /\ \A f \in DOMAIN payload'[i] : payload'[i][f] = data[i][f]
    ]_vars

\* C32 witness: after an edit and a duplicate removal the first, second and
\* sixth row of the file have been submitted, in their order.
C32_Witness ==
  /\ Len(payload) = 3
  /\ payload[1] = [email |-> <<"a", "@", "b", ".", "c", "o">>, name |-> <<"A", "l">>]
  /\ payload[2] = [email |-> <<"c", "@", "d", ".", "i", "o">>, name |-> <<"B", "o">>]
  /\ payload[3] = [email |-> <<"e", "@", "f", ".", "o", "r", "g">>, name |-> <<"F", "l", "o">>]

\* C34: positional lookup under pagination.  Page p shows exactly the rows at
\* the 0-based positions (p-1)*pageSize .. min(p*pageSize, rowCount)-1 (23 rows
\* of page size 10 make 3 pages); the error and duplicate markers of the
\* rowIndex-th row shown are those of the row at position startIndex + rowIndex
\* of the whole sequence; and an edit changes only a row shown on the page.
C34_PositionalLookup ==
  /\ [](Ceil(23, 10) = 3)
  /\ [](Len(data) > 0
          => /\ PagePositions =
                  {i + 1 : i \in ((currentPage - 1) * pageSize)
                                   ..(Min(currentPage * pageSize, Len(data)) - 1)}
             /\ \A rowIndex \in 0..(Cardinality(PagePositions) - 1) :
                  LET pos == (currentPage - 1) * pageSize + rowIndex + 1
                      row == data[pos]
                  IN  /\ \A c \in 1..Len(columns) :
                           LET issue == FieldIssue(columns[c], Get(row, columns[c]))
                               shown == GetCellError(rowIndex, columns[c])
                           IN  IF issue = NoIssue THEN shown = <<>>
                               ELSE /\ Len(shown) = 1
                                    /\ shown[1].message = issue
                                    /\ shown[1].value = Get(row, columns[c])
                      /\ IsDuplicateRow(rowIndex)
                           <=> /\ row.email # <<>>
                               /\ \E j \in 1..(pos - 1) : data[j].email = row.email)
  /\ [][ EditsCell => \A i \in 1..Len(data) : data'[i] # data[i] => i \in PagePositions ]_vars

\* C34 witness: on the second page of page size 5 the only row shown, the sixth
\* of the file, holds a typed email that fails the format rule; its error is
\* shown for page index 0.
C34_Witness ==
  /\ currentPage = 2
  /\ pageSize = 5
  /\ Len(data) = 6
  /\ data[6].email = <<"c", "@", "d">>
  /\ Len(GetCellError(0, "email")) = 1
  /\ GetCellError(0, "email")[1].row = 5

\* C33: fetchSchools returns no school when the trimmed query has fewer than 2
\* characters; otherwise it returns, in directory order, the first at most 10
\* schools whose name contains the trimmed query without regard to case, and
\* never a school whose name does not.
C33_FetchSchoolsResult ==
  LET term == ToLowerCase(Trim(autocomplete.searchQuery))
      result == autocomplete.suggestions
      Matches(i) == \E off \in 0..(Len(SchoolName(i)) - Len(term)) :
                      \A j \in 1..Len(term) : ToLowerCase(SchoolName(i))[off + j] = term[j]
  IN  IF Len(term) < 2 THEN result = <<>>
      ELSE /\ Len(result) <= 10
           /\ \A x \in 1..Len(result) : Matches(result[x])
           /\ \A x \in 1..(Len(result) - 1) : result[x] < result[x + 1]
           /\ \A i \in 1..Len(MOCK_SCHOOLS) :
                Matches(i) => \/ \E x \in 1..Len(result) : result[x] = i
                              \/ Len(result) = 10 /\ result[10] < i

\* C33 witness: the query "OAK " has returned the two Oak Grove schools.
C33_Witness ==
  /\ autocomplete.searchQuery = <<"O", "A", "K", " ">>
  /\ autocomplete.suggestions = <<5, 6>>

\* C35: the selection holds only identifiers of rows that are in the store,
\* after toggling, select-all, ingest, duplicate removal and deletion.
C35_SelectionWithinStore == selectedRowIds \subseteq RowIdsOf(data)

\* C36: the loading flag does not get stuck.  Whenever isLoading is true a
\* suggestion request that has not been cancelled is in flight, so that its
\* completion clears the flag; this is to hold also after the request of an
\* unmounted cell has been aborted by the cleanup effect.
C36_LoadingHasLiveRequest ==
  autocomplete.isLoading =>
    \E r \in DOMAIN requests : requests[r].phase = "latency" /\ ~requests[r].aborted

\* C37: the header checkbox changes selection membership only for the rows of
\* the current page: in every state where it can be clicked, the click adds the
\* identifiers of the current page when not all of them are selected, removes
\* them when all are, and leaves the selection of rows on other pages as it is.
C37_SelectAllTouchesOnlyCurrentPage ==
  ~ENABLED (/\ HandleSelectAllCurrentPage
            /\ ~(/\ selectedRowIds' \cap CurrentPageRowIds =
                      (IF AllCurrentPageSelected THEN {} ELSE CurrentPageRowIds)
                  /\ \A id \in RowIdsOf(data) \ CurrentPageRowIds :
                        id \in selectedRowIds' <=> id \in selectedRowIds))

\* C38: the displayed file name and the rows agree: whenever no ingest is in
\* progress and the store holds rows, fileName names a file that parses and
\* every stored row is a row of that file with its identifier added.
C38_FileNameMatchesRows ==
  (~isProcessing /\ pendingReads = {} /\ Len(data) > 0)
    => /\ fileName # None
       /\ Parses(fileName)
       /\ \A i \in 1..Len(data) :
            \E j \in 1..Len(SheetToJson(fileName)) :
              data[i] = WithField(SheetToJson(fileName)[j], "id", data[i].id)

\* C39: removeDuplicates and findDuplicates agree: removeDuplicates(rows, key)
\* is rows with exactly the positions of findDuplicates(rows, key) removed, the
\* other rows unchanged and in order, and findDuplicates of the result is empty.
C39_RemoveAgreesWithFind ==
  LET found == FindDuplicates(data, "email")
      flagged == {found[x] + 1 : x \in 1..Len(found)}
      kept == (1..Len(data)) \ flagged
      cleaned == RemoveDuplicates(data, "email")
  IN  /\ Len(cleaned) = Cardinality(kept)
      /\ \A i \in kept : cleaned[Cardinality({j \in kept : j <= i})] = data[i]
      /\ FindDuplicates(cleaned, "email") = <<>>

\* C39 witness: findDuplicates has stored the positions 2 and 3 of the rows with
\* keys A, B, A, A, C, and removeDuplicates has then removed exactly the rows
\* at those positions.
C39_Witness ==
  /\ duplicates = <<2, 3>>
  /\ Len(data) = 3
  /\ \A i \in 1..3 : data[i].id = <<<<0, 1>>, <<0, 2>>, <<0, 5>>>>[i]
  /\ FindDuplicates(data, "email") = <<>>
====
